---- MODULE Spec2Model ----
(***************************************************************************)
(* Candidate lifecycle of the recruitment dashboard backend: the candidate *)
(* routes (backend/routes/candidates.js, stored in src/backend/middleware/ *)
(* auth.js from line 102), the Candidate and Organization models, the file *)
(* routes and the settings (stage) routes.                                 *)
(*                                                                         *)
(* Every route handler is cut at its awaits: one action per store access.  *)
(* A Mongoose document read by findOne is a private snapshot of the        *)
(* request; save() writes the paths the handler assigned ($set) and        *)
(* appends the elements it pushed ($push) to the document stored at that   *)
(* moment.                                                                 *)
(***************************************************************************)
EXTENDS Integers, Sequences, FiniteSets, TLC

VARIABLES
  candidates,   \* the Candidate collection: _id -> stored document
  nextId,       \* the next _id the store hands out
  orgStages,    \* Organization.stages of every tenant
  orgVersion,   \* the version key __v of every tenant's Organization document
  reqs,         \* request handlers suspended at an await: slot -> frame
  nOps,         \* number of requests accepted so far
  resp,         \* the response sent last
  events,       \* socket events emitted so far, in emit order
  listQ,        \* the query of the last GET /api/candidates and its answer
  clients       \* the browser sessions: rooms joined, events handled, local view

vars == <<candidates, nextId, orgStages, orgVersion, reqs, nOps, resp, events, listQ, clients>>

----------------------------------------------------------------------------
(* Bounds of the model *)

MaxOps   == 3      \* requests accepted in one behaviour
MaxReqs  == 2      \* handlers in flight at the same time
MaxCands == 2      \* candidate ids the store hands out
maxCandidates == 1 \* subscription.maxCandidates of every tenant

----------------------------------------------------------------------------
(* Principals, tenants and request inputs *)

Orgs  == {"orgA", "orgB"}

\* the principals: ua administers orgA, uc administers orgB, ub is an
\* operator of orgB
Principals == {"ua", "ub", "uc"}

\* the principals of the candidate routes' specification
Users == {"ua", "ub"}

\* req.organization = decoded.organization, req.user = the token's user
UserOrg == [u \in Principals |-> IF u = "ua" THEN "orgA" ELSE "orgB"]

\* req.user.isAdmin
UserIsAdmin == [u \in Principals |-> u # "ub"]

Emails   == {"a@x.io", "b@x.io"}
StageIds == {"inbox", "screening", "archived"}
TestIds  == {"t1"}
Statuses == {"not_sent", "pending", "passed", "failed", "review"}

CandIds == 1 .. MaxCands
ReqIds  == 1 .. MaxReqs

\* value of key k of a request body, d when the body has no such key
Field(body, k, d) == IF k \in DOMAIN body THEN body[k] ELSE d

Null == "null"

----------------------------------------------------------------------------
(* The Organization model *)

Stage(id, isCore, order) == [id |-> id, title |-> id, isCore |-> isCore, order |-> order]

\* the default of organizationSchema.stages
DefaultStages ==
  <<Stage("inbox", TRUE, 0), Stage("screening", TRUE, 1),
    Stage("interview-1", TRUE, 2), Stage("interview-2", FALSE, 3),
    Stage("offer", TRUE, 4), Stage("hired", TRUE, 5),
    Stage("rejected", TRUE, 6), Stage("archived", TRUE, 7)>>

----------------------------------------------------------------------------
(* The Candidate model *)

\* the entry addHistoryEntry(user, action, details) pushes:
\* { user, action, details, timestamp }
HistoryEntryWith(u, action, details) ==
  [user |-> u, action |-> action, details |-> details]

\* a history entry pushed without details, as every caller of
\* addHistoryEntry and every handler that pushes to history does
HistoryEntry(u, action) == HistoryEntryWith(u, action, Null)

\* a comment pushed by addComment: { user, text, timestamp }
Comment(u, text) == [user |-> u, text |-> text]

\* testResult.file: { name, type, url, uploadedAt }, before and after an upload
NoFile   == [name |-> Null, type |-> Null]
FileInfo == [name |-> "report.pdf", type |-> "application/pdf"]

\* new Candidate({...req.body, organization, createdBy, history: [created]})
\* with the schema defaults of the paths the body leaves out
NewCandidate(id, body, u) ==
  [_id            |-> id,
   organization   |-> UserOrg[u],
   name           |-> body.name,
   email          |-> body.email,
   phone          |-> body.phone,
   stage          |-> Field(body, "stage", "inbox"),
   isArchived     |-> Field(body, "isArchived", FALSE),
   archivedAt     |-> Null,
   archivedBy     |-> Null,
   history        |-> <<HistoryEntry(u, <<"created">>)>>,
   comments       |-> Field(body, "comments", <<>>),
   testResults    |-> Field(body, "testResults", <<>>),
   hasResume      |-> FALSE,
   createdBy      |-> u,
   lastModifiedBy |-> Null]

\* findOne that forgets the organization filter
FindOneAnyTenant(id, org) ==
  IF id \in DOMAIN candidates THEN {candidates[id]} ELSE {}

\* Candidate.findOne({ _id: id, organization: org }): the set of matches
FindOne(id, org) ==
  IF id \in DOMAIN candidates /\ candidates[id].organization = org
  THEN {candidates[id]}
  ELSE {}

\* Candidate.countDocuments({ organization: org })
CountDocuments(org) ==
  Cardinality({c \in DOMAIN candidates : candidates[c].organization = org})

\* a quota check that counts the candidates that are not archived only
CanAddCandidateLive(org) ==
  Cardinality({c \in DOMAIN candidates :
                 candidates[c].organization = org /\ ~candidates[c].isArchived})
    < maxCandidates

\* organization.canAddCandidate()
CanAddCandidate(org) == CountDocuments(org) < maxCandidates

\* Candidate.findOne({ email, organization }) of the create handler
ExistingCandidate(email, org) ==
  {c \in DOMAIN candidates :
     candidates[c].email = email /\ candidates[c].organization = org}

----------------------------------------------------------------------------
(* Plumbing of the request handlers *)

\* the slot a newly accepted request runs in
FreeRid == CHOOSE r \in ReqIds : r \notin DOMAIN reqs /\
                                 \A q \in ReqIds : q < r => q \in DOMAIN reqs

\* a request is accepted while the model's budget lasts
CanAccept == nOps < MaxOps /\ Cardinality(DOMAIN reqs) < MaxReqs

\* the handler suspends at an await with frame f
Suspend(f) ==
  /\ reqs' = reqs @@ (FreeRid :> f)
  /\ nOps' = nOps + 1

\* res.status(status).json(...) of a handler that never suspended
Answer(op, u, id, status) ==
  /\ resp' = [op |-> op, user |-> u, cid |-> id, status |-> status]
  /\ nOps' = nOps + 1
  /\ UNCHANGED reqs

\* res.status(status).json(...) of the suspended handler r
Finish(r, status) ==
  /\ resp' = [op |-> reqs[r].op, user |-> reqs[r].user,
              cid |-> reqs[r].cid, status |-> status]
  /\ reqs' = [q \in DOMAIN reqs \ {r} |-> reqs[q]]
  /\ UNCHANGED nOps

\* io.to(`org-${org}`).emit(type, payload)
Emit(org, type, id, data) ==
  events' = Append(events, [room |-> org, type |-> type, cid |-> id, data |-> data])

\* document.save() of a document that was found as candidates[id]: the update
\* matches no document once the candidate has been deleted
Stored(r) == reqs[r].cid \in DOMAIN candidates

\* document.save(): the paths the handler assigned are $set, the elements it
\* pushed to history and comments are appended to the arrays as stored
Save(stored, assigned, pushedHistory, pushedComments) ==
  [k \in DOMAIN stored |->
     CASE k = "history"  -> Field(assigned, k, stored.history) \o pushedHistory
       [] k = "comments" -> Field(assigned, k, stored.comments) \o pushedComments
       [] OTHER          -> Field(assigned, k, stored[k])]

----------------------------------------------------------------------------
(* POST /api/candidates *)

\* creates that hold a frame and may still insert
CreatesInFlight == Cardinality({r \in DOMAIN reqs : reqs[r].op = "create"})

\* organization.canAddCandidate(), then 403 or on to the duplicate check
CreateCandidate(u, body) ==
  /\ CanAccept
  /\ nextId + CreatesInFlight <= MaxCands
  /\ IF ~CanAddCandidate(UserOrg[u])
     THEN /\ Answer("create", u, 0, 403)
          /\ UNCHANGED <<candidates, nextId, events>>
     ELSE /\ Suspend([op |-> "create", user |-> u, cid |-> 0, pc |-> "dup",
                      doc |-> body, arg |-> Null])
          /\ UNCHANGED <<candidates, nextId, events, resp>>
  /\ UNCHANGED <<orgStages, orgVersion, listQ, clients>>

\* Candidate.findOne({ email, organization }), then 400 or on to the save
CreateCheckDuplicate(r) ==
  /\ r \in DOMAIN reqs
  /\ reqs[r].op = "create" /\ reqs[r].pc = "dup"
  /\ IF ExistingCandidate(reqs[r].doc.email, UserOrg[reqs[r].user]) # {}
     THEN Finish(r, 400)
     ELSE /\ reqs' = [reqs EXCEPT ![r].pc = "save"]
          /\ UNCHANGED <<resp, nOps>>
  /\ UNCHANGED <<candidates, nextId, events, orgStages, orgVersion, listQ, clients>>

\* new Candidate(...), candidate.save(), emit candidate:created, 201
CreateSave(r) ==
  /\ r \in DOMAIN reqs
  /\ reqs[r].op = "create" /\ reqs[r].pc = "save"
  /\ candidates' = candidates @@
                   (nextId :> NewCandidate(nextId, reqs[r].doc, reqs[r].user))
  /\ nextId' = nextId + 1
  /\ Emit(UserOrg[reqs[r].user], "candidate:created", nextId,
          <<NewCandidate(nextId, reqs[r].doc, reqs[r].user)>>)
  /\ resp' = [op |-> "create", user |-> reqs[r].user, cid |-> nextId, status |-> 201]
  /\ reqs' = [q \in DOMAIN reqs \ {r} |-> reqs[q]]
  /\ UNCHANGED <<nOps, orgStages, orgVersion, listQ, clients>>

----------------------------------------------------------------------------
(* The handlers that start with Candidate.findOne({ _id, organization }) *)

\* findOne, then 404 or the handler goes on with the document it found
FindThen(op, u, id, arg) ==
  /\ CanAccept
  /\ IF FindOne(id, UserOrg[u]) = {}
     THEN /\ Answer(op, u, id, 404)
          /\ UNCHANGED <<candidates, nextId, events>>
     ELSE /\ Suspend([op |-> op, user |-> u, cid |-> id, pc |-> "save",
                      doc |-> candidates[id], arg |-> arg])
          /\ UNCHANGED <<candidates, nextId, events, resp>>
  /\ UNCHANGED <<orgStages, orgVersion, listQ, clients>>

\* the save of handler r wrote doc; the handler emits and answers 200
Committed(r, doc, type, data) ==
  /\ candidates' = [candidates EXCEPT ![reqs[r].cid] = doc]
  /\ IF type = Null
     THEN UNCHANGED events
     ELSE Emit(UserOrg[reqs[r].user], type, reqs[r].cid, data)
  /\ Finish(r, 200)
  /\ UNCHANGED <<nextId, orgStages, orgVersion, listQ, clients>>

\* a catch block that publishes the handler's event before it answers 500
FailedPublishing(r) ==
  /\ Finish(r, 500)
  /\ Emit(UserOrg[reqs[r].user], "candidate:updated", reqs[r].cid, <<>>)
  /\ UNCHANGED <<candidates, nextId, orgStages, orgVersion, listQ, clients>>

\* the save of handler r threw: the catch block answers 500
Failed(r) ==
  /\ Finish(r, 500)
  /\ UNCHANGED <<candidates, nextId, events, orgStages, orgVersion, listQ, clients>>

AtSave(r, op) == r \in DOMAIN reqs /\ reqs[r].op = op /\ reqs[r].pc = "save"

----------------------------------------------------------------------------
(* PUT /api/candidates/:id *)

\* a key list that leaves the comments key out
ProtectedKeysWithoutComments == {"history", "_id", "organization"}

\* keys of the request body the update handler does not copy
ProtectedKeys == {"history", "comments", "_id", "organization"}

\* a field copy that protects no key
UpdateFieldsUnprotected(patch, u) ==
  [k \in DOMAIN patch \cup {"lastModifiedBy"} |->
     IF k = "lastModifiedBy" THEN u ELSE patch[k]]

\* Object.keys(req.body).forEach(key => candidate[key] = req.body[key]) for
\* the keys that are not protected, and candidate.lastModifiedBy
UpdateFields(patch, u) ==
  [k \in (DOMAIN patch \ ProtectedKeys) \cup {"lastModifiedBy"} |->
     IF k = "lastModifiedBy" THEN u ELSE patch[k]]

UpdateCandidate(u, id, patch) == FindThen("update", u, id, patch)

\* history.push(edited), candidate.save(), emit candidate:updated
UpdateSave(r) ==
  /\ AtSave(r, "update")
  /\ IF Stored(r)
     THEN Committed(r,
            Save(candidates[reqs[r].cid],
                 UpdateFields(reqs[r].arg, reqs[r].user),
                 <<HistoryEntry(reqs[r].user, <<"edited">>)>>, <<>>),
            "candidate:updated", <<>>)
     ELSE Failed(r)

----------------------------------------------------------------------------
(* PUT /api/candidates/:id/stage *)

UpdateStageRoute(u, id, newStage) == FindThen("stage", u, id, newStage)

\* updateStage that saves without its history entry
UpdateStageNoHistory(stored, doc, newStage, u) ==
  Save(stored, [stage |-> newStage, lastModifiedBy |-> u], <<>>, <<>>)

\* candidateSchema.methods.updateStage: the document after its save
UpdateStage(stored, doc, newStage, u) ==
  Save(stored,
       [stage |-> newStage, lastModifiedBy |-> u],
       <<HistoryEntry(u, <<"stageChanged", doc.stage, newStage>>)>>, <<>>)

\* candidate.updateStage(req.body.stage, req.user), which saves and emits
UpdateStageSave(r) ==
  /\ AtSave(r, "stage")
  /\ IF Stored(r)
     THEN Committed(r,
            UpdateStage(candidates[reqs[r].cid], reqs[r].doc, reqs[r].arg, reqs[r].user),
            "candidate:stageChanged", <<reqs[r].doc.stage, reqs[r].arg>>)
     ELSE Failed(r)

----------------------------------------------------------------------------
(* PUT /api/candidates/:id/archive *)

\* an archive that writes no history entry for a candidate already archived
ArchiveOnce(stored, u) ==
  Save(stored,
       [isArchived |-> TRUE, archivedAt |-> "date", archivedBy |-> u,
        stage |-> "archived"],
       IF stored.isArchived THEN <<>> ELSE <<HistoryEntry(u, <<"archived">>)>>, <<>>)

\* candidateSchema.methods.archive: the document after its save
Archive(stored, u) ==
  Save(stored,
       [isArchived |-> TRUE, archivedAt |-> "date", archivedBy |-> u,
        stage |-> "archived"],
       <<HistoryEntry(u, <<"archived">>)>>, <<>>)

\* unarchive that leaves archivedAt and archivedBy as they are
UnarchiveKeepingArchiver(stored, u) ==
  Save(stored,
       [isArchived |-> FALSE, stage |-> "inbox"],
       <<HistoryEntry(u, <<"unarchived">>)>>, <<>>)

\* unarchive that leaves the stage alone
UnarchiveKeepingStage(stored, u) ==
  Save(stored,
       [isArchived |-> FALSE, archivedAt |-> Null, archivedBy |-> Null],
       <<HistoryEntry(u, <<"unarchived">>)>>, <<>>)

\* candidateSchema.methods.unarchive: the document after its save
Unarchive(stored, u) ==
  Save(stored,
       [isArchived |-> FALSE, archivedAt |-> Null, archivedBy |-> Null,
        stage |-> "inbox"],
       <<HistoryEntry(u, <<"unarchived">>)>>, <<>>)

ToggleArchive(u, id) == FindThen("archive", u, id, Null)

\* if (candidate.isArchived) unarchive else archive, on the document as read;
\* the second save() of either method has nothing left to write
ToggleArchiveSave(r) ==
  /\ AtSave(r, "archive")
  /\ IF Stored(r)
     THEN Committed(r,
            IF reqs[r].doc.isArchived
            THEN Unarchive(candidates[reqs[r].cid], reqs[r].user)
            ELSE Archive(candidates[reqs[r].cid], reqs[r].user),
            Null, <<>>)
     ELSE Failed(r)

----------------------------------------------------------------------------
(* POST /api/candidates/:id/comments *)

\* body('text').notEmpty() answers 400 before the handler runs
AddCommentRoute(u, id, text) ==
  IF text = ""
  THEN /\ CanAccept
       /\ Answer("comment", u, id, 400)
       /\ UNCHANGED <<candidates, nextId, events, orgStages, orgVersion, listQ, clients>>
  ELSE FindThen("comment", u, id, text)

\* an addComment that also records the comment in the history
AddCommentWithHistory(stored, u, text) ==
  Save(stored, <<>>, <<HistoryEntry(u, <<"commented">>)>>, <<Comment(u, text)>>)

\* candidateSchema.methods.addComment: the document after its save
AddComment(stored, u, text) == Save(stored, <<>>, <<>>, <<Comment(u, text)>>)

\* a payload taken from the end of the comments as stored when the handler emits
NewCommentAsStored(stored, own) == stored.comments[Len(stored.comments)]

\* candidate.comments[candidate.comments.length - 1] of the emit: the last
\* comment of the handler's own document after its addComment (stored is the
\* document in the store at that time, which the handler does not read)
NewComment(stored, own) == own.comments[Len(own.comments)]

\* candidate.addComment(req.user, req.body.text), emit candidate:commentAdded
\* with the last comment of the handler's own document
AddCommentSave(r) ==
  /\ AtSave(r, "comment")
  /\ IF Stored(r)
     THEN Committed(r,
            AddComment(candidates[reqs[r].cid], reqs[r].user, reqs[r].arg),
            "candidate:commentAdded",
            <<NewComment(AddComment(candidates[reqs[r].cid], reqs[r].user, reqs[r].arg),
                         AddComment(reqs[r].doc, reqs[r].user, reqs[r].arg))>>)
     ELSE Failed(r)

----------------------------------------------------------------------------
(* DELETE /api/candidates/:id and GET /api/candidates/:id *)

\* a removal that keeps the document and marks it archived
MarkedDeleted(id) == [candidates EXCEPT ![id].isArchived = TRUE]

\* the collection after findOneAndDelete has removed the document it found
FindOneAndDelete(id) == [c \in DOMAIN candidates \ {id} |-> candidates[c]]

\* isAdmin, then Candidate.findOneAndDelete({ _id, organization })
DeleteCandidate(u, id) ==
  /\ CanAccept
  /\ IF ~UserIsAdmin[u]
     THEN /\ Answer("delete", u, id, 403)
          /\ UNCHANGED <<candidates, events>>
     ELSE IF FindOne(id, UserOrg[u]) = {}
     THEN /\ Answer("delete", u, id, 404)
          /\ UNCHANGED <<candidates, events>>
     ELSE /\ candidates' = FindOneAndDelete(id)
          /\ Emit(UserOrg[u], "candidate:deleted", id, <<>>)
          /\ Answer("delete", u, id, 200)
  /\ UNCHANGED <<nextId, orgStages, orgVersion, listQ, clients>>

\* Candidate.findOne({ _id, organization }), 404 or the document
GetCandidate(u, id) ==
  /\ CanAccept
  /\ Answer("get", u, id, IF FindOne(id, UserOrg[u]) = {} THEN 404 ELSE 200)
  /\ UNCHANGED <<candidates, nextId, events, orgStages, orgVersion, listQ, clients>>

----------------------------------------------------------------------------
(* POST /api/files/test-result/:candidateId/:testId and /resume/:candidateId *)

\* index of candidate.testResults.find(t => t.testId === testId), 0 if none
FindTestResult(doc, testId) ==
  IF \E i \in 1 .. Len(doc.testResults) : doc.testResults[i].testId = testId
  THEN CHOOSE i \in 1 .. Len(doc.testResults) :
         /\ doc.testResults[i].testId = testId
         /\ \A j \in 1 .. (i - 1) : doc.testResults[j].testId # testId
  ELSE 0

\* the test-result handler's change of the document, as saved: the file of
\* the entry it found, or a pushed entry { testId, status: 'review', file }
AttachFile(stored, doc, testId) ==
  LET i == FindTestResult(doc, testId) IN
  IF i > 0
  THEN [stored EXCEPT !.testResults[i].file = FileInfo]
  ELSE [stored EXCEPT !.testResults =
          Append(@, [testId |-> testId, status |-> "review", file |-> FileInfo])]

UploadTestResult(u, id, testId) == FindThen("testFile", u, id, testId)

UploadTestResultSave(r) ==
  /\ AtSave(r, "testFile")
  /\ IF Stored(r)
     THEN Committed(r,
            AttachFile(candidates[reqs[r].cid], reqs[r].doc, reqs[r].arg),
            Null, <<>>)
     ELSE Failed(r)

UploadResume(u, id) == FindThen("resume", u, id, Null)

\* candidate.hasResume = true; candidate.resumeUrl = url; candidate.save()
UploadResumeSave(r) ==
  /\ AtSave(r, "resume")
  /\ IF Stored(r)
     THEN Committed(r,
            Save(candidates[reqs[r].cid], [hasResume |-> TRUE], <<>>, <<>>),
            Null, <<>>)
     ELSE Failed(r)

\* allowedTypes of fileFilter
AllowedTypes ==
  [resume |-> {"application/pdf", "application/msword",
               "application/vnd.openxmlformats-officedocument.wordprocessingml.document"},
   image  |-> {"image/jpeg", "image/png", "image/gif", "image/webp"},
   test   |-> {"application/pdf"}]

\* req.baseUrl in the file router: the path app.use('/api/files', fileRoutes)
\* mounts it on
BaseUrl == <<"api", "files">>

\* fileType of fileFilter: 'resume' or 'image' if req.baseUrl includes the
\* word, 'test' otherwise
FileType ==
  IF \E i \in 1 .. Len(BaseUrl) : BaseUrl[i] = "resume" THEN "resume"
  ELSE IF \E i \in 1 .. Len(BaseUrl) : BaseUrl[i] = "image" THEN "image"
  ELSE "test"

\* POST /api/files/resume/:candidateId with a file of the given mimetype:
\* upload.single('file') hands a file fileFilter refuses to the error
\* middleware, which answers 500; otherwise the handler runs
UploadResumeFile(u, id, mimetype) ==
  IF mimetype \notin AllowedTypes[FileType]
  THEN /\ CanAccept
       /\ Answer("resume", u, id, 500)
       /\ UNCHANGED <<candidates, nextId, events, orgStages, orgVersion, listQ, clients>>
  ELSE UploadResume(u, id)

----------------------------------------------------------------------------
(* The specification of the candidate routes *)

\* the fields body('name'), body('email') and body('phone') require; the
\* e-mails are lower case, as the schema's lowercase setter leaves them
Contact(email) == [name |-> "Ali", email |-> email, phone |-> "0912"]

\* request bodies of POST /api/candidates
CreateBodies ==
  {Contact("a@x.io"),
   [stage |-> "screening"] @@ Contact("a@x.io"),
   [organization |-> "orgB", history |-> <<>>,
    comments |-> <<Comment("ub", "hi")>>] @@ Contact("b@x.io")}

\* request bodies of PUT /api/candidates/:id
Patches ==
  {[email |-> "a@x.io"],
   [stage |-> "archived"],
   [isArchived |-> TRUE],
   [email |-> "b@x.io", organization |-> "orgB", _id |-> 2,
    history |-> <<>>, comments |-> <<>>]}

Texts == {"", "hi"}

\* the outcome of the last request of the axios instance: none yet
NoLast == [kind |-> Null, outcome |-> Null, refreshes |-> 0, sends |-> 0]

\* the provider's initial filters state: archived false, page 1, limit 50
DefaultFilters ==
  [search |-> "", stage |-> "", archived |-> FALSE, page |-> 1, limit |-> 50]

NoResp == [op |-> Null, user |-> Null, cid |-> 0, status |-> 0]

\* no call of candidateService in progress
NoCall == [op |-> Null, pc |-> "idle", cid |-> 0, arg |-> Null, file |-> Null,
           hasResume |-> FALSE]

\* a browser session before its socket connects: no room joined, no event
\* handled, no candidate loaded, no service call made
\* in progress; its filters state is the initial one, and so are the filters
\* its socket handlers would be bound to
\* (localStorage holds no auth_token, no refresh_token and no user, and no
\* request of the axios instance has been made)
NoClient == [since |-> <<>>, cursor |-> 0, view |-> <<>>, call |-> NoCall,
             filters |-> DefaultFilters, bound |-> DefaultFilters,
             token |-> Null, refreshToken |-> Null, user |-> Null,
             api |-> <<>>, calls |-> 0, last |-> NoLast]

Init ==
  /\ candidates = <<>>
  /\ nextId = 1
  /\ orgStages = [o \in Orgs |-> DefaultStages]
  /\ orgVersion = [o \in Orgs |-> 0]
  /\ reqs = <<>>
  /\ nOps = 0
  /\ resp = NoResp
  /\ events = <<>>
  /\ listQ = <<>>
  /\ clients = [u \in Principals |-> NoClient]

Next ==
  \/ \E u \in Users, body \in CreateBodies : CreateCandidate(u, body)
  \/ \E r \in ReqIds : CreateCheckDuplicate(r)
  \/ \E r \in ReqIds : CreateSave(r)
  \/ \E u \in Users, id \in CandIds, patch \in Patches : UpdateCandidate(u, id, patch)
  \/ \E r \in ReqIds : UpdateSave(r)
  \/ \E u \in Users, id \in CandIds, s \in StageIds : UpdateStageRoute(u, id, s)
  \/ \E r \in ReqIds : UpdateStageSave(r)
  \/ \E u \in Users, id \in CandIds : ToggleArchive(u, id)
  \/ \E r \in ReqIds : ToggleArchiveSave(r)
  \/ \E u \in Users, id \in CandIds, text \in Texts : AddCommentRoute(u, id, text)
  \/ \E r \in ReqIds : AddCommentSave(r)
  \/ \E u \in Users, id \in CandIds : DeleteCandidate(u, id)
  \/ \E u \in Users, id \in CandIds : GetCandidate(u, id)
  \/ \E u \in Users, id \in CandIds, t \in TestIds : UploadTestResult(u, id, t)
  \/ \E r \in ReqIds : UploadTestResultSave(r)
  \/ \E u \in Users, id \in CandIds : UploadResume(u, id)
  \/ \E r \in ReqIds : UploadResumeSave(r)

Spec == Init /\ [][Next]_vars

----------------------------------------------------------------------------
(* Properties of the candidate routes *)

IsPrefix(s, t) == Len(s) <= Len(t) /\ SubSeq(t, 1, Len(s)) = s

Last(s) == s[Len(s)]

\* this step is the end of the suspended handler r, of route op, with status
Ends(r, op, status) ==
  /\ AtSave(r, op)
  /\ r \notin DOMAIN reqs'
  /\ resp'.status = status

QuotaRespected == \A org \in Orgs : CountDocuments(org) <= maxCandidates

\* C7: history and comments only grow: in every step the stored sequences
\* have their previous value as a prefix
AppendOnly ==
  [][\A c \in DOMAIN candidates \cap DOMAIN candidates' :
       /\ IsPrefix(candidates[c].history, candidates'[c].history)
       /\ IsPrefix(candidates[c].comments, candidates'[c].comments)]_vars

\* a commented candidate after an update whose body carried history and
\* comments keys (the only body that sets the e-mail b@x.io)
AppendOnlyWitness ==
  \E c \in DOMAIN candidates :
    /\ \E i \in 1 .. Len(events) :
         /\ events[i].type = "candidate:created" /\ events[i].cid = c
         /\ events[i].data[1].email = "a@x.io"
    /\ candidates[c].email = "b@x.io"
    /\ Len(candidates[c].comments) = 1
    /\ Len(candidates[c].history) = 2
    /\ Last(candidates[c].history).action = <<"edited">>

\* C8: stage is 'archived' exactly when isArchived is true
ArchivedIffStage ==
  \A c \in DOMAIN candidates :
    (candidates[c].stage = "archived") <=> candidates[c].isArchived

\* C9: no two candidates of a tenant have the same e-mail
EmailUnique ==
  \A c, d \in DOMAIN candidates :
    (/\ c # d
     /\ candidates[c].organization = candidates[d].organization)
      => candidates[c].email # candidates[d].email

\* candidate id is stored and owned by another tenant than user u's
Foreign(u, id) ==
  id \in DOMAIN candidates /\ candidates[id].organization # UserOrg[u]

\* the request is answered with status and nothing else happens
OnlyAnswers(status) ==
  /\ resp'.status = status
  /\ UNCHANGED <<candidates, reqs, events>>

\* the requests on one candidate other than delete, with valid bodies
Addresses(u, id) ==
  \/ \E patch \in Patches : UpdateCandidate(u, id, patch)
  \/ \E s \in StageIds : UpdateStageRoute(u, id, s)
  \/ ToggleArchive(u, id)
  \/ \E text \in Texts \ {""} : AddCommentRoute(u, id, text)
  \/ GetCandidate(u, id)
  \/ \E t \in TestIds : UploadTestResult(u, id, t)
  \/ UploadResume(u, id)

\* no step changes the owner of a candidate, a new candidate is owned by its
\* creator's tenant, and a stored candidate is changed or removed only by a
\* request of a principal of the tenant that owns it
OwnedByTenant ==
  /\ \A c \in DOMAIN candidates \cap DOMAIN candidates' :
       /\ candidates'[c].organization = candidates[c].organization
       /\ candidates'[c] # candidates[c] =>
            \E r \in DOMAIN reqs \ DOMAIN reqs' :
              /\ reqs[r].cid = c
              /\ UserOrg[reqs[r].user] = candidates[c].organization
  /\ \A c \in DOMAIN candidates' \ DOMAIN candidates :
       candidates'[c].organization = UserOrg[resp'.user]
  /\ \A c \in DOMAIN candidates \ DOMAIN candidates' :
       /\ resp'.op = "delete"
       /\ UserOrg[resp'.user] = candidates[c].organization

\* C10, as amended: a request of a principal of tenant A on a candidate of
\* tenant B is answered NotFound (delete by a principal who is no
\* administrator: Forbidden; a comment with an empty text: the validation
\* error) and changes nothing; no step changes the tenant that owns a
\* candidate, whatever the request body holds
TenantIsolation ==
  [][/\ \A u \in Users, id \in CandIds :
          Foreign(u, id) =>
            /\ Addresses(u, id) => OnlyAnswers(404)
            /\ AddCommentRoute(u, id, "") => OnlyAnswers(400)
            /\ DeleteCandidate(u, id) =>
                 OnlyAnswers(IF UserIsAdmin[u] THEN 404 ELSE 403)
     /\ OwnedByTenant]_vars

\* C10, as claimed: every such request, delete included, answers NotFound
TenantIsolationAllNotFound ==
  [][/\ \A u \in Users, id \in CandIds :
          Foreign(u, id) =>
            /\ Addresses(u, id) => OnlyAnswers(404)
            /\ DeleteCandidate(u, id) => OnlyAnswers(404)
     /\ OwnedByTenant]_vars

\* an update by a principal of another tenant was answered NotFound, and a
\* candidate created with an organization key in its body is stored
TenantIsolationWitness ==
  /\ resp.op = "update" /\ resp.status = 404
  /\ Foreign(resp.user, resp.cid)
  /\ \E c \in DOMAIN candidates :
       candidates[c].email = "b@x.io" /\ candidates[c].organization = "orgA"

----------------------------------------------------------------------------
(* The test-evaluation sub-workflow: candidates that carry test results of *)
(* every status, and the test-result upload                                *)

TestResult(testId, status) == [testId |-> testId, status |-> status, file |-> NoFile]

\* request bodies of POST /api/candidates that carry a testResults array
TestBodies ==
  {Contact("b@x.io")}
  \cup {[testResults |-> <<TestResult(t, st)>>] @@ Contact("a@x.io") :
          t \in TestIds, st \in Statuses}

NextTests ==
  \/ \E u \in Users, body \in TestBodies : CreateCandidate(u, body)
  \/ \E r \in ReqIds : CreateCheckDuplicate(r)
  \/ \E r \in ReqIds : CreateSave(r)
  \/ \E u \in Users, id \in CandIds, t \in TestIds : UploadTestResult(u, id, t)
  \/ \E r \in ReqIds : UploadTestResultSave(r)
  \/ \E u \in Users, id \in CandIds : GetCandidate(u, id)

SpecTests == Init /\ [][NextTests]_vars

\* C3: a successful test-result upload for testId leaves the candidate with an
\* entry for testId that holds the file and has status 'review', whatever the
\* status of the entry was before
UploadForcesReview ==
  [][\A r \in ReqIds :
       Ends(r, "testFile", 200) =>
         LET doc == candidates'[reqs[r].cid]
             i   == FindTestResult(doc, reqs[r].arg)
         IN  /\ i > 0
             /\ doc.testResults[i].file = FileInfo
             /\ doc.testResults[i].status = "review"]_vars

----------------------------------------------------------------------------
(* /api/settings/stages: the tenant's stage list *)

StageIdsOf(stages) == {stages[i].id : i \in 1 .. Len(stages)}

\* organization.stages.find(s => s.id === id), for an id of the list
StageById(stages, id) ==
  stages[CHOOSE i \in 1 .. Len(stages) :
           /\ stages[i].id = id
           /\ \A j \in 1 .. (i - 1) : stages[j].id # id]

\* Math.max(...this.stages.map(s => s.order))
MaxOrder(stages) ==
  CHOOSE m \in {stages[i].order : i \in 1 .. Len(stages)} :
    \A i \in 1 .. Len(stages) : stages[i].order <= m

\* the stage organization.addStage pushes: order = maxOrder + 1
AddedStage(stages, id) ==
  [id |-> id, title |-> id, isCore |-> FALSE, order |-> MaxOrder(stages) + 1]

\* a count of the candidates in a stage that forgets the tenant
CandidatesInStageAnyTenant(org, id) ==
  Cardinality({c \in DOMAIN candidates : candidates[c].stage = id})

\* Candidate.countDocuments({ organization, stage: id })
CandidatesInStage(org, id) ==
  Cardinality({c \in DOMAIN candidates :
                 candidates[c].organization = org /\ candidates[c].stage = id})

\* organization.stages.filter(s => s.id !== id)
RemoveStage(stages, id) == SelectSeq(stages, LAMBDA st : st.id # id)

\* Organization.findById(req.organization): the stages and the version key
FindById(org) == [stages |-> orgStages[org], __v |-> orgVersion[org]]

\* the document handler r read still has the stored version: the condition
\* save() puts on a write that sets the stages array or one of its elements
VersionMatches(r) == orgVersion[UserOrg[reqs[r].user]] = reqs[r].doc.__v

\* save() wrote stages to the tenant's document and incremented its version
StagesSaved(org, stages) ==
  /\ orgStages' = [orgStages EXCEPT ![org] = stages]
  /\ orgVersion' = [orgVersion EXCEPT ![org] = @ + 1]

\* save() found no document of the version read: VersionError, answered 500
VersionError(r) ==
  /\ Finish(r, 500)
  /\ UNCHANGED <<candidates, nextId, events, orgStages, orgVersion, listQ, clients>>

\* a settings handler answers without having changed anything
SettingsAnswer(op, u, status) ==
  /\ Answer(op, u, 0, status)
  /\ UNCHANGED <<candidates, nextId, events, orgStages, orgVersion, listQ, clients>>

\* a settings handler suspends with the organization document it read
SettingsSuspend(op, u, pc, id) ==
  /\ Suspend([op |-> op, user |-> u, cid |-> 0, pc |-> pc,
              doc |-> FindById(UserOrg[u]), arg |-> id])
  /\ UNCHANGED <<candidates, nextId, events, orgStages, orgVersion, listQ, clients, resp>>

\* POST /api/settings/stages: isAdmin, findById, duplicate id check
AddStageRoute(u, id) ==
  /\ CanAccept
  /\ IF ~UserIsAdmin[u]
     THEN SettingsAnswer("addStage", u, 403)
     ELSE IF id \in StageIdsOf(orgStages[UserOrg[u]])
     THEN SettingsAnswer("addStage", u, 400)
     ELSE SettingsSuspend("addStage", u, "save", id)

\* organization.addStage(stage): push and save; the $push goes to the
\* stored array and increments the version without a condition on it
AddStageSave(r) ==
  /\ r \in DOMAIN reqs
  /\ reqs[r].op = "addStage" /\ reqs[r].pc = "save"
  /\ StagesSaved(UserOrg[reqs[r].user],
                 Append(orgStages[UserOrg[reqs[r].user]],
                        AddedStage(reqs[r].doc.stages, reqs[r].arg)))
  /\ Finish(r, 200)
  /\ UNCHANGED <<candidates, nextId, events, listQ, clients>>

\* DELETE /api/settings/stages/:id: isAdmin, findById, stage found, not core
DeleteStageRoute(u, id) ==
  /\ CanAccept
  /\ IF ~UserIsAdmin[u]
     THEN SettingsAnswer("deleteStage", u, 403)
     ELSE IF id \notin StageIdsOf(orgStages[UserOrg[u]])
     THEN SettingsAnswer("deleteStage", u, 404)
     ELSE IF StageById(orgStages[UserOrg[u]], id).isCore
     THEN SettingsAnswer("deleteStage", u, 403)
     ELSE SettingsSuspend("deleteStage", u, "count", id)

\* Candidate.countDocuments({ organization, stage }), then 400 or on
DeleteStageCount(r) ==
  /\ r \in DOMAIN reqs
  /\ reqs[r].op = "deleteStage" /\ reqs[r].pc = "count"
  /\ IF CandidatesInStage(UserOrg[reqs[r].user], reqs[r].arg) > 0
     THEN Finish(r, 400)
     ELSE /\ reqs' = [reqs EXCEPT ![r].pc = "save"]
          /\ UNCHANGED <<resp, nOps>>
  /\ UNCHANGED <<candidates, nextId, events, orgStages, orgVersion, listQ, clients>>

\* organization.stages = organization.stages.filter(...), save, 200; the
\* save sets the whole array, on the condition that the version is the one read
DeleteStageSave(r) ==
  /\ r \in DOMAIN reqs
  /\ reqs[r].op = "deleteStage" /\ reqs[r].pc = "save"
  /\ IF VersionMatches(r)
     THEN /\ StagesSaved(UserOrg[reqs[r].user],
                         RemoveStage(reqs[r].doc.stages, reqs[r].arg))
          /\ Finish(r, 200)
          /\ UNCHANGED <<candidates, nextId, events, listQ, clients>>
     ELSE VersionError(r)

\* request bodies of POST /api/candidates that name a stage
StageBodies ==
  {Contact("a@x.io"), [stage |-> "interview-2"] @@ Contact("a@x.io")}

\* stage ids the settings and transition requests name
NewStageIds    == {"interview-2", "custom"}
TargetStageIds == {"inbox", "interview-2"}
DeletedIds     == {"inbox", "interview-2", "custom", "nope"}

NextStages ==
  \/ \E u \in Principals, body \in StageBodies : CreateCandidate(u, body)
  \/ \E r \in ReqIds : CreateCheckDuplicate(r)
  \/ \E r \in ReqIds : CreateSave(r)
  \/ \E u \in Principals, id \in CandIds, s \in TargetStageIds : UpdateStageRoute(u, id, s)
  \/ \E r \in ReqIds : UpdateStageSave(r)
  \/ \E u \in Principals, id \in NewStageIds : AddStageRoute(u, id)
  \/ \E r \in ReqIds : AddStageSave(r)
  \/ \E u \in Principals, id \in DeletedIds : DeleteStageRoute(u, id)
  \/ \E r \in ReqIds : DeleteStageCount(r)
  \/ \E r \in ReqIds : DeleteStageSave(r)

SpecStages == Init /\ [][NextStages]_vars

\* a candidate of tenant org is in stage id
Occupied(org, id) ==
  \E c \in DOMAIN candidates :
    candidates[c].organization = org /\ candidates[c].stage = id

----------------------------------------------------------------------------
(* GET /api/candidates: the list with its search and its pagination *)

\* the characters of the strings the candidates and the queries carry
Chars ==
  ("Ali"    :> <<"A", "l", "i">>) @@
  ("Sara"   :> <<"S", "a", "r", "a">>) @@
  ("a@x.io" :> <<"a", "@", "x", ".", "i", "o">>) @@
  ("b@x.io" :> <<"b", "@", "x", ".", "i", "o">>) @@
  ("0912"   :> <<"0", "9", "1", "2">>) @@
  ("0935"   :> <<"0", "9", "3", "5">>) @@
  ("ali"    :> <<"a", "l", "i">>) @@
  ("ALI"    :> <<"A", "L", "I">>) @@
  ("a.x"    :> <<"a", ".", "x">>) @@
  (".io"    :> <<".", "i", "o">>) @@
  ("09"     :> <<"0", "9">>)

\* the case folding of $options: 'i'
Fold(c) ==
  CASE c = "A" -> "a"
    [] c = "L" -> "l"
    [] c = "I" -> "i"
    [] c = "S" -> "s"
    [] OTHER   -> c

\* one pattern character of a $regex against one character: '.' matches any
\* character, every other character of these patterns matches itself
RegexCharMatches(p, c) == p = "." \/ Fold(p) = Fold(c)

\* { $regex: pattern, $options: 'i' }: the pattern matches somewhere in str
RegexMatches(pattern, str) ==
  LET p == Chars[pattern]
      t == Chars[str]
  IN  \E i \in 1 .. (Len(t) - Len(p) + 1) :
        \A k \in 1 .. Len(p) : RegexCharMatches(p[k], t[i + k - 1])

\* queryObj of the list handler applied to one document
MatchesQuery(c, org, q) ==
  /\ c.organization = org
  /\ c.isArchived = q.archived
  /\ q.stage # "" => c.stage = q.stage
  /\ q.search # "" =>
       \/ RegexMatches(q.search, c.name)
       \/ RegexMatches(q.search, c.email)
       \/ RegexMatches(q.search, c.phone)

\* the ids of a set in the order of sort({ createdAt: -1 })
NewestFirst(S) ==
  CHOOSE s \in [1 .. Cardinality(S) -> S] :
    \A i, j \in 1 .. Cardinality(S) : i < j => s[i] > s[j]

\* Candidate.find(queryObj).sort(...).limit(limit).skip((page - 1) * limit)
Find(org, q) ==
  LET ids  == NewestFirst({c \in DOMAIN candidates :
                             MatchesQuery(candidates[c], org, q)})
      from == (q.page - 1) * q.limit + 1
      to   == IF q.page * q.limit < Len(ids) THEN q.page * q.limit ELSE Len(ids)
  IN  [i \in 1 .. (IF to >= from THEN to - from + 1 ELSE 0) |->
         candidates[ids[from + i - 1]]]

\* Candidate.countDocuments(queryObj)
CountMatching(org, q) ==
  Cardinality({c \in DOMAIN candidates : MatchesQuery(candidates[c], org, q)})

\* Math.ceil(total / limit)
Pages(total, limit) == (total + limit - 1) \div limit

\* GET /api/candidates up to the await of find
ListCandidates(u, q) ==
  /\ CanAccept
  /\ Suspend([op |-> "list", user |-> u, cid |-> 0, pc |-> "count",
              doc |-> Find(UserOrg[u], q), arg |-> q])
  /\ UNCHANGED <<candidates, nextId, events, orgStages, orgVersion, listQ, clients, resp>>

\* countDocuments of the same queryObj, then the answer
ListCount(r) ==
  /\ r \in DOMAIN reqs
  /\ reqs[r].op = "list" /\ reqs[r].pc = "count"
  /\ LET q     == reqs[r].arg
         total == CountMatching(UserOrg[reqs[r].user], q)
     IN  listQ' = <<[user |-> reqs[r].user, query |-> q,
                     candidates |-> reqs[r].doc, total |-> total,
                     page |-> q.page, pages |-> Pages(total, q.limit)]>>
  /\ Finish(r, 200)
  /\ UNCHANGED <<candidates, nextId, events, orgStages, orgVersion, clients>>

\* req.query of the list: limit defaults to 50, page to 1
Query(search, stage, archived, page, limit) ==
  [search |-> search, stage |-> stage, archived |-> archived,
   page |-> page, limit |-> limit]

Queries ==
  {Query("", "", FALSE, 1, 50),
   Query("ali", "", FALSE, 1, 50),
   Query("ALI", "", TRUE, 1, 50),
   Query("a.x", "", FALSE, 1, 50),
   Query(".io", "", FALSE, 2, 1),
   Query("09", "screening", FALSE, 1, 1)}

\* request bodies of POST /api/candidates with different contacts
ListBodies ==
  {Contact("a@x.io"),
   [name |-> "Sara", email |-> "b@x.io", phone |-> "0935", stage |-> "screening"]}

NextList ==
  \/ \E u \in Users, body \in ListBodies : CreateCandidate(u, body)
  \/ \E r \in ReqIds : CreateCheckDuplicate(r)
  \/ \E r \in ReqIds : CreateSave(r)
  \/ \E u \in Users, id \in CandIds : ToggleArchive(u, id)
  \/ \E r \in ReqIds : ToggleArchiveSave(r)
  \/ \E u \in Users, q \in Queries : ListCandidates(u, q)
  \/ \E r \in ReqIds : ListCount(r)

SpecList == Init /\ [][NextList]_vars

\* str contains term, letters compared without their case
Contains(term, str) ==
  LET p == Chars[term]
      t == Chars[str]
  IN  \E i \in 1 .. (Len(t) - Len(p) + 1) :
        \A k \in 1 .. Len(p) : Fold(p[k]) = Fold(t[i + k - 1])

\* document c is of tenant org, passes the other filters of q and has the
\* search term of q in its name, its email or its phone
ContainsTerm(c, org, q) ==
  /\ c.organization = org
  /\ c.isArchived = q.archived
  /\ q.stage # "" => c.stage = q.stage
  /\ Contains(q.search, c.name) \/ Contains(q.search, c.email)
       \/ Contains(q.search, c.phone)

\* C6: a list with a search term answers only candidates of the caller's
\* tenant whose name, email or phone contains the term without regard to
\* case and that pass the other filters, and its total is the number of all
\* the candidates that do, whatever the page and the limit
ListSearchContains ==
  [][\A r \in DOMAIN reqs :
       (reqs[r].op = "list" /\ r \notin DOMAIN reqs' /\ reqs[r].arg.search # "") =>
         LET q   == reqs[r].arg
             org == UserOrg[reqs[r].user]
             a   == listQ'[1]
         IN  /\ \A i \in 1 .. Len(a.candidates) : ContainsTerm(a.candidates[i], org, q)
             /\ a.total = Cardinality({c \in DOMAIN candidates :
                                         ContainsTerm(candidates[c], org, q)})]_vars

----------------------------------------------------------------------------
(* /api/settings/stages: edit and reorder *)

\* the position of organization.stages.find(s => s.id === id)
StageIndex(stages, id) ==
  CHOOSE i \in 1 .. Len(stages) :
    /\ stages[i].id = id
    /\ \A j \in 1 .. (i - 1) : stages[j].id # id

\* PUT /api/settings/stages/:id: isAdmin, findById, stage found, not core; a
\* body without a title leaves the document unmodified and save() writes nothing
PutStageRoute(u, id, title) ==
  /\ CanAccept
  /\ IF ~UserIsAdmin[u]
     THEN SettingsAnswer("putStage", u, 403)
     ELSE IF id \notin StageIdsOf(orgStages[UserOrg[u]])
     THEN SettingsAnswer("putStage", u, 404)
     ELSE IF StageById(orgStages[UserOrg[u]], id).isCore
     THEN SettingsAnswer("putStage", u, 403)
     ELSE SettingsSuspend("putStage", u, "save", [id |-> id, title |-> title])

\* stage.title = req.body.title, save: the write sets stages.<index>.title on
\* the condition that the version is the one read, and does not increment it
PutStageSave(r) ==
  /\ r \in DOMAIN reqs
  /\ reqs[r].op = "putStage" /\ reqs[r].pc = "save"
  /\ IF reqs[r].arg.title = ""
     THEN /\ Finish(r, 200)
          /\ UNCHANGED <<candidates, nextId, events, orgStages, orgVersion, listQ, clients>>
     ELSE IF VersionMatches(r)
     THEN /\ orgStages' =
               [orgStages EXCEPT
                  ![UserOrg[reqs[r].user]][StageIndex(reqs[r].doc.stages, reqs[r].arg.id)].title =
                    reqs[r].arg.title]
          /\ Finish(r, 200)
          /\ UNCHANGED <<candidates, nextId, events, orgVersion, listQ, clients>>
     ELSE VersionError(r)

\* the last position of id in stageIds, counted from 0 as forEach does: every
\* occurrence of id assigns stage.order on the same subdocument
LastIndex(stageIds, id) ==
  (CHOOSE i \in 1 .. Len(stageIds) :
     /\ stageIds[i] = id
     /\ \A j \in (i + 1) .. Len(stageIds) : stageIds[j] # id) - 1

\* reorderedStages of organization.reorderStages(stageIds): one entry for
\* every listed id that names a stage, in the order of the list
ReorderedStages(stages, stageIds) ==
  LET found == SelectSeq([i \in 1 .. Len(stageIds) |-> i],
                         LAMBDA i : stageIds[i] \in StageIdsOf(stages))
  IN  [k \in 1 .. Len(found) |->
         [StageById(stages, stageIds[found[k]]) EXCEPT
            !.order = LastIndex(stageIds, stageIds[found[k]])]]

\* the handler of PUT /api/settings/stages/reorder: isAdmin, findById.  (The
\* router registers it after PUT /stages/:id, which Express offers the
\* request first.)
ReorderStagesRoute(u, stageIds) ==
  /\ CanAccept
  /\ IF ~UserIsAdmin[u]
     THEN SettingsAnswer("reorderStages", u, 403)
     ELSE SettingsSuspend("reorderStages", u, "save", stageIds)

\* organization.reorderStages(stageIds): this.stages = reorderedStages, save;
\* the save sets the whole array on the condition that the version is the
\* one read
ReorderStagesSave(r) ==
  /\ r \in DOMAIN reqs
  /\ reqs[r].op = "reorderStages" /\ reqs[r].pc = "save"
  /\ IF VersionMatches(r)
     THEN /\ StagesSaved(UserOrg[reqs[r].user],
                         ReorderedStages(reqs[r].doc.stages, reqs[r].arg))
          /\ Finish(r, 200)
          /\ UNCHANGED <<candidates, nextId, events, listQ, clients>>
     ELSE VersionError(r)

\* req.body.title of the stage edit
Titles == {"", "Renamed"}

\* ids the stage edit names
PutIds == {"inbox", "interview-2", "custom", "reorder"}

\* req.body.stageIds of the reorder
DefaultOrder == [i \in 1 .. Len(DefaultStages) |-> DefaultStages[i].id]

StageIdLists ==
  {DefaultOrder,
   <<"interview-2", "inbox">>,
   <<"screening", "inbox", "screening">>}

NextSettings ==
  \/ \E u \in Principals, id \in NewStageIds : AddStageRoute(u, id)
  \/ \E r \in ReqIds : AddStageSave(r)
  \/ \E u \in Principals, id \in PutIds, title \in Titles : PutStageRoute(u, id, title)
  \/ \E r \in ReqIds : PutStageSave(r)
  \/ \E u \in Principals, id \in DeletedIds : DeleteStageRoute(u, id)
  \/ \E r \in ReqIds : DeleteStageCount(r)
  \/ \E r \in ReqIds : DeleteStageSave(r)
  \/ \E u \in Principals, stageIds \in StageIdLists : ReorderStagesRoute(u, stageIds)
  \/ \E r \in ReqIds : ReorderStagesSave(r)

SpecSettings == Init /\ [][NextSettings]_vars

\* C11: every core stage of the default list is in every tenant's stage list
\* with the title it had
CoreStagesKept ==
  \A o \in Orgs : \A k \in 1 .. Len(DefaultStages) :
    DefaultStages[k].isCore =>
      \E i \in 1 .. Len(orgStages[o]) :
        /\ orgStages[o][i].id = DefaultStages[k].id
        /\ orgStages[o][i].title = DefaultStages[k].title
        /\ orgStages[o][i].isCore

\* C12: the ids of a tenant's stage list are pairwise distinct
StageIdsDistinct ==
  \A o \in Orgs : \A i, j \in 1 .. Len(orgStages[o]) :
    i # j => orgStages[o][i].id # orgStages[o][j].id

----------------------------------------------------------------------------
(* The broadcast of candidate mutations *)

\* the candidates a step creates, changes or removes
Mutated ==
  {c \in DOMAIN candidates \cup DOMAIN candidates' :
     \/ c \notin DOMAIN candidates
     \/ c \notin DOMAIN candidates'
     \/ candidates'[c] # candidates[c]}

\* the tenant that owns candidate c before or after the step
OwnerOf(c) ==
  IF c \in DOMAIN candidates THEN candidates[c].organization
  ELSE candidates'[c].organization

\* C13: every step that commits a mutation of a candidate publishes one event
\* about that candidate to the room of the tenant that owns it
EveryCommitPublishes ==
  [][\A c \in Mutated :
       /\ Len(events') = Len(events) + 1
       /\ Last(events').cid = c
       /\ Last(events').room = OwnerOf(c)]_vars

----------------------------------------------------------------------------
(* The save and the emit of a handler as two steps: the store applies the   *)
(* write, and the handler's continuation after the await emits and answers  *)

\* the routes that emit after their save
EmittingOps == {"update", "stage", "comment"}

\* the changes handler r saves, applied to document base
WrittenTo(r, base) ==
  CASE reqs[r].op = "update" ->
         Save(base, UpdateFields(reqs[r].arg, reqs[r].user),
              <<HistoryEntry(reqs[r].user, <<"edited">>)>>, <<>>)
    [] reqs[r].op = "stage" ->
         UpdateStage(base, reqs[r].doc, reqs[r].arg, reqs[r].user)
    [] reqs[r].op = "comment" ->
         AddComment(base, reqs[r].user, reqs[r].arg)

\* the document the save of handler r leaves in the store
Written(r) == WrittenTo(r, candidates[reqs[r].cid])

\* the handler's own document after its save, which res.json sends as data:
\* the document it read with its own changes
InMemory(r) == WrittenTo(r, reqs[r].doc)

\* the event type handler r emits
EventType(r) ==
  CASE reqs[r].op = "update"  -> "candidate:updated"
    [] reqs[r].op = "stage"   -> "candidate:stageChanged"
    [] reqs[r].op = "comment" -> "candidate:commentAdded"

\* the payload of the event besides the candidate id
EventData(r) ==
  CASE reqs[r].op = "update"  -> <<>>
    [] reqs[r].op = "stage"   -> <<reqs[r].doc.stage, reqs[r].arg>>
    [] reqs[r].op = "comment" -> <<NewComment(candidates[reqs[r].cid], InMemory(r))>>

\* the store applies the write of handler r's save (or the document is gone
\* and the save rejects)
SaveApplied(r) ==
  /\ r \in DOMAIN reqs
  /\ reqs[r].op \in EmittingOps /\ reqs[r].pc = "save"
  /\ IF Stored(r)
     THEN /\ candidates' = [candidates EXCEPT ![reqs[r].cid] = Written(r)]
          /\ reqs' = [reqs EXCEPT ![r].pc = "emit"]
          /\ UNCHANGED <<nextId, events, resp, nOps, orgStages, orgVersion, listQ, clients>>
     ELSE Failed(r)

\* the continuation of handler r after its save: io.to(room).emit, res.json;
\* the response travels to the client that sent the request
AfterSave(r) ==
  /\ r \in DOMAIN reqs
  /\ reqs[r].pc = "emit"
  /\ Emit(UserOrg[reqs[r].user], EventType(r), reqs[r].cid, EventData(r))
  /\ resp' = [op |-> reqs[r].op, user |-> reqs[r].user,
              cid |-> reqs[r].cid, status |-> 200]
  /\ reqs' = [reqs EXCEPT ![r].pc = "response", ![r].doc = InMemory(r)]
  /\ UNCHANGED <<candidates, nextId, nOps, orgStages, orgVersion, listQ, clients>>

\* setCandidatesState(prev => prev.map(c => c.id === id ? updatedCandidate : c))
Replaced(view, id, updatedCandidate) ==
  [c \in DOMAIN view |-> IF c = id THEN updatedCandidate ELSE view[c]]

\* the response of handler r reaches the client: addComment, updateCandidate
\* and updateCandidateStage of the provider put the returned candidate in
\* the place of the local one
ResponseArrives(r) ==
  /\ r \in DOMAIN reqs
  /\ reqs[r].pc = "response"
  /\ clients' = [clients EXCEPT ![reqs[r].user].view =
                   Replaced(@, reqs[r].cid, reqs[r].doc)]
  /\ reqs' = [q \in DOMAIN reqs \ {r} |-> reqs[q]]
  /\ UNCHANGED <<candidates, nextId, events, resp, nOps, orgStages, orgVersion, listQ>>

\* the emit throws in the continuation of handler r: the handler's catch
\* block logs the error and answers 500
EmitThrows(r) ==
  /\ r \in DOMAIN reqs
  /\ reqs[r].pc = "emit"
  /\ Finish(r, 500)
  /\ UNCHANGED <<candidates, nextId, events, orgStages, orgVersion, listQ, clients>>

\* request bodies of PUT /api/candidates/:id of the broadcast specification
BroadcastPatches == {[phone |-> "0935"]}

NextBroadcast ==
  \/ \E u \in Users, body \in StageBodies : CreateCandidate(u, body)
  \/ \E r \in ReqIds : CreateCheckDuplicate(r)
  \/ \E r \in ReqIds : CreateSave(r)
  \/ \E u \in Users, id \in CandIds, patch \in BroadcastPatches : UpdateCandidate(u, id, patch)
  \/ \E u \in Users, id \in CandIds, st \in TargetStageIds : UpdateStageRoute(u, id, st)
  \/ \E u \in Users, id \in CandIds, text \in Texts : AddCommentRoute(u, id, text)
  \/ \E r \in ReqIds : SaveApplied(r)
  \/ \E r \in ReqIds : AfterSave(r)
  \/ \E r \in ReqIds : EmitThrows(r)
  \/ \E r \in ReqIds : ResponseArrives(r)

SpecBroadcast == Init /\ [][NextBroadcast]_vars

\* C14: when the emit of a handler throws after its save, the store keeps the
\* write, no event is published later in its place, and the request is
\* answered with its success status
EmitFailureSwallowed ==
  [][\A r \in DOMAIN reqs :
       EmitThrows(r) =>
         /\ candidates' = candidates
         /\ events' = events
         /\ resp'.status = 200]_vars

\* s is t with some of its elements left out
RECURSIVE IsSubsequence(_, _)
IsSubsequence(s, t) ==
  IF s = <<>> THEN TRUE
  ELSE IF t = <<>> THEN FALSE
  ELSE IF s[1] = t[1] THEN IsSubsequence(Tail(s), Tail(t))
  ELSE IsSubsequence(s, Tail(t))

\* the updates and stage changes of candidate c in the order the store
\* committed them: its history records each with one entry
CommitOrder(c) ==
  LET h == SelectSeq(candidates[c].history,
                     LAMBDA e : e.action[1] \in {"edited", "stageChanged"})
  IN  [i \in 1 .. Len(h) |->
         IF h[i].action[1] = "edited" THEN "candidate:updated"
         ELSE "candidate:stageChanged"]

\* the updates and stage changes of candidate c in the order the tenant's
\* room was sent them
EmitOrder(c) ==
  LET e == SelectSeq(events,
                     LAMBDA ev : ev.cid = c /\ ev.type \in {"candidate:updated",
                                                           "candidate:stageChanged"})
  IN  [i \in 1 .. Len(e) |-> e[i].type]

\* C16: the events about one candidate are sent to the tenant's room in the
\* order in which the store committed their mutations
EventsInCommitOrder ==
  \A c \in DOMAIN candidates : IsSubsequence(EmitOrder(c), CommitOrder(c))

----------------------------------------------------------------------------
(* The browser sessions: socket rooms, event handlers, local candidate list *)

\* socket.on('join-organization', orgId => socket.join(`org-${orgId}`)): the
\* session gets what is emitted to the room from now on
JoinOrganization(s, orgId) ==
  /\ orgId \notin DOMAIN clients[s].since
  /\ clients' = [clients EXCEPT ![s].since = @ @@ (orgId :> Len(events))]
  /\ UNCHANGED <<candidates, nextId, orgStages, orgVersion, reqs, nOps, resp, events, listQ>>

\* newSocket.on('connect'): the session asks to join room orgId when its
\* provider mounts, before the requests of this specification
Connect(s, orgId) ==
  /\ nOps = 0
  /\ JoinOrganization(s, orgId)

\* the list fetchCandidates loads: GET /api/candidates with the provider's
\* filters (archived: false, page 1, limit 50), answered for the tenant of
\* the session's token
Fetched(s) ==
  [c \in {d \in DOMAIN candidates :
            /\ candidates[d].organization = UserOrg[s]
            /\ ~candidates[d].isArchived} |-> candidates[c]]

\* fetchCandidates() of the provider, on its initial load
FetchCandidates(s) ==
  /\ clients[s].view # Fetched(s)
  /\ clients' = [clients EXCEPT ![s].view = Fetched(s)]
  /\ UNCHANGED <<candidates, nextId, orgStages, orgVersion, reqs, nOps, resp, events, listQ>>

\* the provider's handler of event e applied to the local list
Handled(s, view, e) ==
  CASE e.type \in {"candidate:created", "candidate:updated"} -> Fetched(s)
    [] e.type = "candidate:deleted" ->
         [c \in DOMAIN view \ {e.cid} |-> view[c]]
    [] e.type = "candidate:stageChanged" ->
         [c \in DOMAIN view |->
            IF c = e.cid THEN [view[c] EXCEPT !.stage = e.data[2]] ELSE view[c]]
    [] e.type = "candidate:commentAdded" ->
         [c \in DOMAIN view |->
            IF c = e.cid THEN [view[c] EXCEPT !.comments = Append(@, e.data[1])]
            ELSE view[c]]

\* event number i was emitted to a room session s had joined
SentTo(s, i) ==
  /\ events[i].room \in DOMAIN clients[s].since
  /\ i > clients[s].since[events[i].room]

\* the socket of session s gets the next event in emit order; the session
\* handles it when it was sent to a room the session was in
Deliver(s) ==
  /\ clients[s].cursor < Len(events)
  /\ LET i == clients[s].cursor + 1
     IN  clients' = [clients EXCEPT
           ![s].cursor = i,
           ![s].view = IF SentTo(s, i) THEN Handled(s, @, events[i]) ELSE @]
  /\ UNCHANGED <<candidates, nextId, orgStages, orgVersion, reqs, nOps, resp, events, listQ>>

\* request bodies of POST /api/candidates of the sessions' specification
ClientBodies == {Contact("a@x.io")}

\* req.body.text of the comments the sessions add
ClientTexts == {"hi"}

\* the sessions that connect: two of orgB
Sessions == {"ub", "uc"}

NextClients ==
  \/ \E u \in Users, body \in ClientBodies : CreateCandidate(u, body)
  \/ \E r \in ReqIds : CreateCheckDuplicate(r)
  \/ \E r \in ReqIds : CreateSave(r)
  \/ \E u \in Users, id \in CandIds, text \in ClientTexts : AddCommentRoute(u, id, text)
  \/ \E r \in ReqIds : SaveApplied(r)
  \/ \E r \in ReqIds : AfterSave(r)
  \/ \E r \in ReqIds : ResponseArrives(r)
  \/ \E s \in Sessions, orgId \in Orgs : Connect(s, orgId)
  \/ \E s \in Sessions : FetchCandidates(s)
  \/ \E s \in Sessions : Deliver(s)

SpecClients == Init /\ [][NextClients]_vars

\* the rooms whose events session s has handled
HeardRooms(s) ==
  {events[i].room : i \in {j \in 1 .. clients[s].cursor : SentTo(s, j)}}

\* C15: a session is in no room but the one of its authenticated tenant, and
\* handles no event of another tenant
OwnChannelOnly ==
  \A s \in Principals :
    /\ DOMAIN clients[s].since \subseteq {UserOrg[s]}
    /\ HeardRooms(s) \subseteq {UserOrg[s]}

\* every response has arrived and every session that is in a room has got
\* every event emitted
Quiescent ==
  /\ reqs = <<>>
  /\ \A s \in Principals :
       DOMAIN clients[s].since # {} => clients[s].cursor = Len(events)

\* C17: once the responses and the events have all arrived, the local
\* comments of a candidate in the list of a session that was in its tenant's
\* room from the start are the stored comments of the candidate
ViewsMatchStore ==
  Quiescent =>
    \A s \in Principals : \A c \in DOMAIN clients[s].view \cap DOMAIN candidates :
      (UserOrg[s] \in DOMAIN clients[s].since /\ clients[s].since[UserOrg[s]] = 0)
        => clients[s].view[c].comments = candidates[c].comments

----------------------------------------------------------------------------
(* The contract of create *)

\* the candidates of tenant org, archived or not
CandidatesOf(org) == {c \in DOMAIN candidates : candidates[c].organization = org}

\* C18: a create of a tenant whose candidates, the archived ones included, are
\* not fewer than maxCandidates is answered 403, and a create whose e-mail a
\* candidate of the tenant has is answered 400, both without storing a
\* candidate or emitting an event; a create that ends with 201 has stored one
\* candidate of the caller's tenant whose history is the one 'created' entry,
\* and has emitted one candidate:created event about it to the tenant's room
CreateContract ==
  [][/\ \A u \in Users, body \in CreateBodies :
          CreateCandidate(u, body) =>
            /\ candidates' = candidates /\ events' = events
            /\ IF Cardinality(CandidatesOf(UserOrg[u])) >= maxCandidates
               THEN resp'.status = 403 /\ resp'.op = "create" /\ reqs' = reqs
               ELSE resp' = resp /\ DOMAIN reqs' # DOMAIN reqs
     /\ \A r \in DOMAIN reqs :
          (reqs[r].op = "create" /\ (r \notin DOMAIN reqs' \/ reqs'[r] # reqs[r])) =>
            LET org == UserOrg[reqs[r].user]
            IN  /\ reqs[r].pc = "dup" =>
                     /\ candidates' = candidates /\ events' = events
                     /\ IF \E c \in CandidatesOf(org) :
                             candidates[c].email = reqs[r].doc.email
                        THEN r \notin DOMAIN reqs' /\ resp'.status = 400
                        ELSE r \in DOMAIN reqs' /\ reqs'[r].pc = "save"
                /\ reqs[r].pc = "save" =>
                     /\ r \notin DOMAIN reqs'
                     /\ resp'.status = 201
                     /\ \E c \in DOMAIN candidates' \ DOMAIN candidates :
                          /\ DOMAIN candidates' = DOMAIN candidates \cup {c}
                          /\ \A d \in DOMAIN candidates : candidates'[d] = candidates[d]
                          /\ candidates'[c].organization = org
                          /\ candidates'[c].email = reqs[r].doc.email
                          /\ Len(candidates'[c].history) = 1
                          /\ candidates'[c].history[1].action = <<"created">>
                          /\ Len(events') = Len(events) + 1
                          /\ SubSeq(events', 1, Len(events)) = events
                          /\ Last(events').type = "candidate:created"
                          /\ Last(events').room = org
                          /\ Last(events').cid = c]_vars

\* a create was refused for the quota of a tenant whose one candidate, made
\* by a create that emitted its event, is archived
CreateContractWitness ==
  /\ resp.op = "create" /\ resp.status = 403
  /\ \E c \in CandidatesOf(UserOrg[resp.user]) : candidates[c].isArchived
  /\ Cardinality(CandidatesOf(UserOrg[resp.user])) = maxCandidates
  /\ Len(events) > 0 /\ events[1].type = "candidate:created"

----------------------------------------------------------------------------
(* The contract of update *)

\* request bodies of POST /api/candidates that carry a comment
UpdateBodies == {[comments |-> <<Comment("ua", "hi")>>] @@ Contact("a@x.io")}

\* request bodies of PUT /api/candidates/:id, the empty one among them
UpdatePatches == Patches \cup {<<>>}

NextUpdate ==
  \/ \E u \in Users, body \in UpdateBodies : CreateCandidate(u, body)
  \/ \E r \in ReqIds : CreateCheckDuplicate(r)
  \/ \E r \in ReqIds : CreateSave(r)
  \/ \E u \in Users, id \in CandIds, patch \in UpdatePatches : UpdateCandidate(u, id, patch)
  \/ \E r \in ReqIds : UpdateSave(r)
  \/ \E u \in Users, id \in CandIds, text \in Texts : AddCommentRoute(u, id, text)
  \/ \E r \in ReqIds : AddCommentSave(r)

SpecUpdate == Init /\ [][NextUpdate]_vars

\* C19: an update that ends with 200 leaves the stored history one 'edited'
\* entry longer, whatever the patch holds, and leaves the candidate's id, its
\* tenant, its comments and the history entries it had as they were
UpdateEffect ==
  [][\A r \in DOMAIN reqs :
       Ends(r, "update", 200) =>
         LET c == reqs[r].cid
         IN  /\ c \in DOMAIN candidates /\ c \in DOMAIN candidates'
             /\ Len(candidates'[c].history) = Len(candidates[c].history) + 1
             /\ SubSeq(candidates'[c].history, 1, Len(candidates[c].history))
                  = candidates[c].history
             /\ Last(candidates'[c].history).action = <<"edited">>
             /\ candidates'[c]._id = candidates[c]._id
             /\ candidates'[c]._id = c
             /\ candidates'[c].organization = candidates[c].organization
             /\ candidates'[c].comments = candidates[c].comments]_vars

\* a candidate of orgA with a comment was updated twice, the second time with
\* the patch that names another tenant, another id, an empty history and no
\* comments: it has the patch's e-mail and nothing else of it
UpdateEffectWitness ==
  /\ resp.op = "update" /\ resp.status = 200
  /\ resp.cid \in DOMAIN candidates
  /\ LET c == candidates[resp.cid]
     IN  /\ c.email = "b@x.io"
         /\ c.organization = "orgA"
         /\ c._id = resp.cid
         /\ Len(c.comments) = 1
         /\ Len(c.history) = 3
         /\ c.history[2].action = <<"edited">>
         /\ c.history[3].action = <<"edited">>

----------------------------------------------------------------------------
(* The contract of archive *)

----------------------------------------------------------------------------
(* The contract of addComment *)

\* req.body.text of the comments of this specification
CommentTexts == {"", "hi", "ok"}

NextComments ==
  \/ \E u \in Users, body \in UpdateBodies : CreateCandidate(u, body)
  \/ \E r \in ReqIds : CreateCheckDuplicate(r)
  \/ \E r \in ReqIds : CreateSave(r)
  \/ \E u \in Users, id \in CandIds, text \in CommentTexts : AddCommentRoute(u, id, text)
  \/ \E r \in ReqIds : SaveApplied(r)
  \/ \E r \in ReqIds : AfterSave(r)
  \/ \E r \in ReqIds : ResponseArrives(r)

SpecComments == Init /\ [][NextComments]_vars

\* C21: the save of an addComment with a text leaves the stored comments one
\* comment longer, the acting user's with that text at the end, and emits
\* nothing; the handler then emits one candidate:commentAdded event to its
\* tenant's room whose payload is the comment of its own request and no
\* candidate, and stores nothing, whatever other addComment ran on the
\* candidate in between; an addComment with an empty text is answered with
\* the validation error, stores nothing and emits nothing
AddCommentEffect ==
  [][/\ \A u \in Users, id \in CandIds :
          AddCommentRoute(u, id, "") => OnlyAnswers(400)
     /\ \A r \in DOMAIN reqs :
          (reqs[r].op = "comment" /\ (r \notin DOMAIN reqs' \/ reqs'[r] # reqs[r])) =>
            LET c   == reqs[r].cid
                new == Comment(reqs[r].user, reqs[r].arg)
            IN  /\ reqs[r].arg # ""
                /\ reqs[r].pc = "save" =>
                     /\ candidates'[c].comments = Append(candidates[c].comments, new)
                     /\ \A d \in DOMAIN candidates \ {c} : candidates'[d] = candidates[d]
                     /\ events' = events
                /\ reqs[r].pc = "emit" =>
                     /\ candidates' = candidates
                     /\ events' = Append(events,
                                         [room |-> UserOrg[reqs[r].user],
                                          type |-> "candidate:commentAdded",
                                          cid |-> c, data |-> <<new>>])
                     /\ resp'.status = 200
                /\ reqs[r].pc = "response" =>
                     candidates' = candidates /\ events' = events]_vars

\* two addComment calls on one candidate were in flight together: the store
\* holds 'hi' before 'ok', the events carry 'ok' before 'hi', one each
AddCommentWitness ==
  /\ reqs = <<>>
  /\ Len(events) = 3
  /\ events[2].type = "candidate:commentAdded" /\ events[2].data[1].text = "ok"
  /\ events[3].type = "candidate:commentAdded" /\ events[3].data[1].text = "hi"
  /\ events[2].cid = events[3].cid
  /\ events[2].cid \in DOMAIN candidates
  /\ LET cs == candidates[events[2].cid].comments
     IN  /\ Len(cs) = 3
         /\ cs[2].text = "hi" /\ cs[3].text = "ok"

----------------------------------------------------------------------------
(* The contract of delete *)

\* a candidate:deleted event about id has been emitted
Deleted(id) ==
  \E i \in 1 .. Len(events) :
    events[i].type = "candidate:deleted" /\ events[i].cid = id

----------------------------------------------------------------------------
(* The contract of addStage *)

\* C23: an addStage that names an id of the tenant's stage list is answered
\* with the conflict error and leaves the list as it was; an addStage that
\* ends with 200 has appended one stage that is not core, has the id asked
\* for and has an order that is the greatest order of the list it was
\* appended to plus one, greater than the order of every stage of that list
AddStageContract ==
  [][/\ \A u \in Principals, id \in NewStageIds :
          (AddStageRoute(u, id) /\ UserIsAdmin[u]
             /\ id \in StageIdsOf(orgStages[UserOrg[u]])) =>
            resp'.status = 400 /\ orgStages' = orgStages /\ reqs' = reqs
     /\ \A r \in DOMAIN reqs :
          (reqs[r].op = "addStage" /\ r \notin DOMAIN reqs' /\ resp'.status = 200) =>
            LET org == UserOrg[reqs[r].user]
                new == Last(orgStages'[org])
            IN  /\ orgStages'[org] = Append(orgStages[org], new)
                /\ new.id = reqs[r].arg /\ ~new.isCore
                /\ new.order = MaxOrder(orgStages[org]) + 1
                /\ \A i \in 1 .. Len(orgStages[org]) :
                     orgStages[org][i].order < new.order]_vars

\* two stages of different ids that two addStage calls appended have the
\* same order
AddedStagesShareOrder ==
  \E o \in Orgs : \E i, j \in 1 .. Len(orgStages[o]) :
    /\ i > Len(DefaultStages) - 1 /\ j > i
    /\ orgStages[o][i].id # orgStages[o][j].id
    /\ orgStages[o][i].order = orgStages[o][j].order

----------------------------------------------------------------------------
(* The contract of reorderStages *)

\* C24: a reorderStages that ends with 200 leaves every stage it stores with
\* an order that is an index at which the list of the request names it, and
\* leaves the tenant with the stages it had: no id of the stage list is gone
\* and none is new
ReorderKeepsStages ==
  [][\A r \in DOMAIN reqs :
       (reqs[r].op = "reorderStages" /\ r \notin DOMAIN reqs' /\ resp'.status = 200) =>
         LET org == UserOrg[reqs[r].user]
             ids == reqs[r].arg
         IN  /\ \A i \in 1 .. Len(orgStages'[org]) :
                  \E k \in 1 .. Len(ids) :
                    ids[k] = orgStages'[org][i].id /\ orgStages'[org][i].order = k - 1
             /\ StageIdsOf(orgStages'[org]) = StageIdsOf(orgStages[org])]_vars

\* a tenant's stage list holds the two stages a reorder named, and no other
ReorderDroppedStages ==
  \E o \in Orgs :
    /\ resp.op = "reorderStages" /\ resp.status = 200 /\ UserOrg[resp.user] = o
    /\ StageIdsOf(orgStages[o]) = {"interview-2", "inbox"}

----------------------------------------------------------------------------
(* candidateService.createCandidate and updateCandidate: the request, then   *)
(* the upload of the resume file.  A response is read by the call it answers *)
(* before anything else happens.                                             *)

\* the sessions that call the service, and the principals that send plain
\* requests beside them
ServiceUsers == {"ub"}
OtherUsers   == {"uc"}

\* the route of the first request of a service call
RequestOp(op) == IF op = "createCandidate" THEN "create" ELSE "update"

\* the response sent last answers a request of session s to route op
Mine(s, op) == resp.user = s /\ resp.op = op

\* a handler of a request of session s is running
Pending(s) == \E r \in DOMAIN reqs : reqs[r].user = s

\* the response to the request the call of session s waits for has been sent
Unread(s) ==
  LET c == clients[s].call
  IN  /\ ~Pending(s)
      /\ \/ c.pc = "request" /\ Mine(s, RequestOp(c.op))
         \/ c.pc = "upload" /\ Mine(s, "resume")

Settled == \A s \in ServiceUsers : ~Unread(s)

\* candidateService.createCandidate(candidateData, resumeFile) is called
CallCreateCandidate(s, body, file) ==
  /\ clients[s].call.pc = "idle"
  /\ clients' = [clients EXCEPT ![s].call =
                   [op |-> "createCandidate", pc |-> "request", cid |-> 0,
                    arg |-> body, file |-> file, hasResume |-> FALSE]]
  /\ UNCHANGED <<candidates, nextId, orgStages, orgVersion, reqs, nOps, resp, events, listQ>>

\* candidateService.updateCandidate(id, updates, resumeFile) is called
CallUpdateCandidate(s, id, patch, file) ==
  /\ clients[s].call.pc = "idle"
  /\ clients' = [clients EXCEPT ![s].call =
                   [op |-> "updateCandidate", pc |-> "request", cid |-> id,
                    arg |-> patch, file |-> file, hasResume |-> FALSE]]
  /\ UNCHANGED <<candidates, nextId, orgStages, orgVersion, reqs, nOps, resp, events, listQ>>

\* apiClient.post(basePath, candidateData) or apiClient.put(`${basePath}/${id}`, updates)
ServiceRequest(s) ==
  LET c == clients[s].call
  IN  /\ c.pc = "request"
      /\ ~Pending(s) /\ ~Mine(s, RequestOp(c.op))
      /\ IF c.op = "createCandidate"
         THEN CreateCandidate(s, c.arg)
         ELSE UpdateCandidate(s, c.cid, c.arg)

\* the call after the response to its first request: it throws when the
\* request failed, goes on to the upload when it has a resume file and
\* returns response.data otherwise
RequestOutcome(c, status, id) ==
  IF status \notin {200, 201} THEN [c EXCEPT !.pc = "thrown"]
  ELSE IF c.file # Null THEN [c EXCEPT !.pc = "upload", !.cid = id]
  ELSE [c EXCEPT !.pc = "returned", !.cid = id]

ServiceResponse(s) ==
  /\ clients[s].call.pc = "request" /\ Unread(s)
  /\ clients' = [clients EXCEPT ![s].call = RequestOutcome(@, resp.status, resp.cid)]
  /\ UNCHANGED <<candidates, nextId, orgStages, orgVersion, reqs, nOps, resp, events, listQ>>

\* this.uploadResume(id, resumeFile): apiClient.upload(`/files/resume/${id}`, file)
ServiceUpload(s) ==
  LET c == clients[s].call
  IN  /\ c.pc = "upload"
      /\ ~Pending(s) /\ ~Mine(s, "resume")
      /\ UploadResumeFile(s, c.cid, c.file)

\* a call that lets the failure of the upload through to its caller
UploadOutcomeThrown(c, status) ==
  IF status = 200 THEN [c EXCEPT !.pc = "returned", !.hasResume = TRUE]
  ELSE [c EXCEPT !.pc = "thrown"]

\* try { await this.uploadResume(...); candidate.hasResume = true }
\* catch (error) { console.error(...) }; return candidate
UploadOutcome(c, status) ==
  IF status = 200 THEN [c EXCEPT !.pc = "returned", !.hasResume = TRUE]
  ELSE [c EXCEPT !.pc = "returned"]

ServiceUploadResponse(s) ==
  /\ clients[s].call.pc = "upload" /\ Unread(s)
  /\ clients' = [clients EXCEPT ![s].call = UploadOutcome(@, resp.status)]
  /\ UNCHANGED <<candidates, nextId, orgStages, orgVersion, reqs, nOps, resp, events, listQ>>

\* the inputs of the service calls and of the requests beside them
ServiceBodies  == {Contact("a@x.io")}
ServicePatches == {[phone |-> "0935"]}
ResumeFiles    == {"application/pdf", "application/msword"}

NextService ==
  \/ \E s \in ServiceUsers, body \in ServiceBodies, file \in ResumeFiles \cup {Null} :
       CallCreateCandidate(s, body, file)
  \/ \E s \in ServiceUsers, id \in CandIds, patch \in ServicePatches,
        file \in ResumeFiles \cup {Null} : CallUpdateCandidate(s, id, patch, file)
  \/ \E s \in ServiceUsers : ServiceRequest(s)
  \/ \E s \in ServiceUsers : ServiceResponse(s)
  \/ \E s \in ServiceUsers : ServiceUpload(s)
  \/ \E s \in ServiceUsers : ServiceUploadResponse(s)
  \/ Settled /\ \E u \in OtherUsers, body \in ServiceBodies : CreateCandidate(u, body)
  \/ Settled /\ \E r \in ReqIds : CreateCheckDuplicate(r)
  \/ Settled /\ \E r \in ReqIds : CreateSave(r)
  \/ Settled /\ \E r \in ReqIds : UpdateSave(r)
  \/ Settled /\ \E u \in OtherUsers, id \in CandIds, file \in ResumeFiles :
       UploadResumeFile(u, id, file)
  \/ Settled /\ \E r \in ReqIds : UploadResumeSave(r)
  \/ Settled /\ \E u \in OtherUsers, id \in CandIds : DeleteCandidate(u, id)

SpecService == Init /\ [][NextService]_vars

\* the step answers the upload of the service call of session s with an error
UploadFails(s) ==
  /\ clients[s].call.pc = "upload"
  /\ ~Mine(s, "resume") \/ Pending(s)
  /\ resp'.user = s /\ resp'.op = "resume" /\ resp'.status # 200
  /\ \A r \in DOMAIN reqs' : reqs'[r].user # s

----------------------------------------------------------------------------
(* The sessions of a tenant beside the archive and the test-result routes *)

\* the sessions that watch, and the principal whose requests they watch
Observers == {"ub"}
Mutators  == {"uc"}

NextConverge ==
  \/ \E u \in Mutators, body \in ClientBodies : CreateCandidate(u, body)
  \/ \E r \in ReqIds : CreateCheckDuplicate(r)
  \/ \E r \in ReqIds : CreateSave(r)
  \/ \E u \in Mutators, id \in CandIds : ToggleArchive(u, id)
  \/ \E r \in ReqIds : ToggleArchiveSave(r)
  \/ \E u \in Mutators, id \in CandIds, t \in TestIds : UploadTestResult(u, id, t)
  \/ \E r \in ReqIds : UploadTestResultSave(r)
  \/ \E u \in Mutators, id \in CandIds, text \in ClientTexts : AddCommentRoute(u, id, text)
  \/ \E r \in ReqIds : AddCommentSave(r)
  \/ \E s \in Observers : Connect(s, UserOrg[s])
  \/ \E s \in Observers : FetchCandidates(s)
  \/ \E s \in Observers : Deliver(s)

SpecConverge == Init /\ [][NextConverge]_vars

\* C26: once no request is in flight and every event has been delivered and
\* handled, every candidate in the list of a session that has been in its
\* tenant's room from the start is stored, with the stage, the isArchived,
\* the comments and the test results the session shows
ViewsConverge ==
  Quiescent =>
    \A s \in Observers :
      (UserOrg[s] \in DOMAIN clients[s].since /\ clients[s].since[UserOrg[s]] = 0) =>
        \A c \in DOMAIN clients[s].view :
          /\ c \in DOMAIN candidates
          /\ clients[s].view[c].stage = candidates[c].stage
          /\ clients[s].view[c].isArchived = candidates[c].isArchived
          /\ clients[s].view[c].comments = candidates[c].comments
          /\ clients[s].view[c].testResults = candidates[c].testResults

\* at rest, a session shows in 'inbox' a candidate that is stored archived
ArchivedUnseen ==
  /\ Quiescent
  /\ \E s \in Observers : \E c \in DOMAIN clients[s].view \cap DOMAIN candidates :
       /\ clients[s].since = ("orgB" :> 0)
       /\ clients[s].cursor = Len(events)
       /\ ~clients[s].view[c].isArchived /\ clients[s].view[c].stage = "inbox"
       /\ candidates[c].isArchived /\ candidates[c].stage = "archived"

\* at rest, a session shows without test results a candidate that is stored
\* with the file of a test
TestFileUnseen ==
  /\ Quiescent
  /\ \E s \in Observers : \E c \in DOMAIN clients[s].view \cap DOMAIN candidates :
       /\ clients[s].since = ("orgB" :> 0)
       /\ clients[s].view[c].testResults = <<>>
       /\ Len(candidates[c].testResults) = 1

----------------------------------------------------------------------------
(* The stage-in-use check and the removal of the stage *)

\* C27: when the save of a stage delete removes the stage, no candidate of
\* the tenant is in that stage
StageRemovalAtomic ==
  [][\A r \in DOMAIN reqs :
       (/\ reqs[r].op = "deleteStage" /\ reqs[r].pc = "save"
        /\ r \notin DOMAIN reqs' /\ resp'.status = 200) =>
         ~Occupied(UserOrg[reqs[r].user], reqs[r].arg)]_vars

\* a candidate of a tenant is in a stage that is not in the tenant's stage
\* list after a delete of the stage has ended with 200
OccupiedStageRemoved ==
  /\ resp.op = "deleteStage" /\ resp.status = 200
  /\ \E c \in DOMAIN candidates :
       /\ candidates[c].organization = UserOrg[resp.user]
       /\ candidates[c].stage = "interview-2"
       /\ "interview-2" \notin StageIdsOf(orgStages[UserOrg[resp.user]])

----------------------------------------------------------------------------
(* The contract of unarchive *)

----------------------------------------------------------------------------
(* What a stage transition records *)

\* C29: the candidate:stageChanged event and the history entry of a stage
\* transition that ends with 200 name as old and new stage the stage the
\* candidate was stored with before the transition's save and the stage it
\* is stored with after it
StageChangeRecordsStored ==
  [][\A r \in DOMAIN reqs :
       Ends(r, "stage", 200) =>
         LET c == reqs[r].cid
         IN  /\ Last(events').type = "candidate:stageChanged"
             /\ Last(events').cid = c
             /\ Last(events').data = <<candidates[c].stage, candidates'[c].stage>>
             /\ Last(candidates'[c].history).action =
                  <<"stageChanged", candidates[c].stage, candidates'[c].stage>>]_vars

\* the history of a candidate holds two transitions that both start from
\* 'inbox', the second of them made when the candidate was in 'screening'
StaleOldStageRecorded ==
  \E c \in DOMAIN candidates :
    /\ Len(candidates[c].history) = 3
    /\ candidates[c].history[2].action = <<"stageChanged", "inbox", "screening">>
    /\ candidates[c].history[3].action = <<"stageChanged", "inbox", "archived">>

----------------------------------------------------------------------------
(* The response bodies and the error the client's API layer raises *)

\* the message of a failure a route handler answers itself
RouteMessage(op, status) ==
  CASE status = 404 -> "candidate not found"
    [] status = 403 -> "candidate limit reached"
    [] op = "create" /\ status = 400 -> "email already registered"
    [] OTHER -> "server error"

\* the body of response r: res.json of the routes, of handleValidationErrors
\* (the 400 of the comment route) and of the error middleware (the 500 of
\* the resume route, for a file the file filter refuses)
Envelope(r) ==
  IF r.status \in {200, 201}
  THEN [success |-> TRUE, message |-> "done", data |-> r.cid]
  ELSE IF r.op = "comment" /\ r.status = 400
  THEN [success |-> FALSE,
        errors |-> <<[field |-> "text", message |-> "text is required"]>>]
  ELSE IF r.op = "resume" /\ r.status = 500
  THEN [success |-> FALSE,
        error |-> [message |-> "file type not allowed", status |-> 500]]
  ELSE [success |-> FALSE, message |-> RouteMessage(r.op, r.status)]

\* error.message of the AxiosError of a response with a status outside 2xx
AxiosMessage(status) ==
  CASE status = 400 -> "Request failed with status code 400"
    [] status = 403 -> "Request failed with status code 403"
    [] status = 404 -> "Request failed with status code 404"
    [] OTHER        -> "Request failed with status code 500"

\* the message of the Error handleApiError makes of a failed response
HandleApiError(status, body) ==
  IF "error" \in DOMAIN body
  THEN body.error.message
  ELSE AxiosMessage(status)

NextApi ==
  \/ \E u \in Users, body \in CreateBodies : CreateCandidate(u, body)
  \/ \E r \in ReqIds : CreateCheckDuplicate(r)
  \/ \E r \in ReqIds : CreateSave(r)
  \/ \E u \in Users, id \in CandIds : GetCandidate(u, id)
  \/ \E u \in Users, id \in CandIds, text \in Texts : AddCommentRoute(u, id, text)
  \/ \E r \in ReqIds : AddCommentSave(r)
  \/ \E u \in Users, id \in CandIds, file \in ResumeFiles : UploadResumeFile(u, id, file)
  \/ \E r \in ReqIds : UploadResumeSave(r)

SpecApi == Init /\ [][NextApi]_vars

\* C30: the body of every response has no key outside success, message, data
\* and errors, and the error the API layer raises for a failed response
\* whose body holds a message has that message
ApiErrorsCarryMessage ==
  resp # NoResp =>
    LET body == Envelope(resp)
    IN  /\ DOMAIN body \subseteq {"success", "message", "data", "errors"}
        /\ (resp.status >= 400 /\ "message" \in DOMAIN body) =>
             HandleApiError(resp.status, body) = body.message

\* a get answered 404 by its route handler raises an error at the client
\* that does not have the message of the response
RouteMessageLost ==
  /\ resp.op = "get" /\ resp.status = 404
  /\ Envelope(resp).message = "candidate not found"
  /\ HandleApiError(resp.status, Envelope(resp)) = "Request failed with status code 404"

\* the response of the error middleware has an error key
ErrorKeyAnswered ==
  /\ resp.op = "resume" /\ resp.status = 500
  /\ "error" \in DOMAIN Envelope(resp)

----------------------------------------------------------------------------
(* What the history entry of archive records *)

\* C31: the history entry an archive() that ends with 200 appends has in its
\* details the stage the candidate held before the archive, as stored or as
\* the handler read it
ArchiveRecordsStage ==
  [][\A r \in DOMAIN reqs :
       (Ends(r, "archive", 200) /\ ~reqs[r].doc.isArchived) =>
         LET c == reqs[r].cid
         IN  /\ Last(candidates'[c].history).action = <<"archived">>
             /\ Last(candidates'[c].history).details
                  \in {candidates[c].stage, reqs[r].doc.stage}]_vars

\* a candidate created in 'screening' has been archived and unarchived and
\* is in 'inbox'; no entry of its history names 'screening'
PreArchiveStageLost ==
  \E c \in DOMAIN candidates :
    /\ \E i \in 1 .. Len(events) :
         /\ events[i].type = "candidate:created" /\ events[i].cid = c
         /\ events[i].data[1].stage = "screening"
    /\ candidates[c].stage = "inbox"
    /\ Len(candidates[c].history) = 3
    /\ candidates[c].history[2].action = <<"archived">>
    /\ \A i \in 1 .. 3 : candidates[c].history[i].details = Null

----------------------------------------------------------------------------
(* TestView: the candidates with sent tests and their result groups *)

\* testLibrary of the settings: t1, and a test t2 no candidate has an entry for
TestLibrary == {"t1", "t2"}

\* c.testResults?.some(r => r.status !== 'not_sent')
HasSentTest(c) ==
  \E i \in 1 .. Len(c.testResults) : c.testResults[i].status # "not_sent"

\* the filter of candidatesWithSentTests
InTestView(c) ==
  HasSentTest(c) /\ c.stage \notin {"hired", "rejected", "archived"}

\* the library tests whose TestResultGroup the expanded candidate c renders:
\* result?.status !== 'not_sent', with result undefined when find finds none
ShownGroups(c) ==
  {t \in TestLibrary :
     LET i == FindTestResult(c, t)
     IN  IF i = 0 THEN TRUE ELSE c.testResults[i].status # "not_sent"}

\* C32: a stored candidate is in the test view only if one of its result
\* entries has a status other than 'not_sent', and the group of a library
\* test is rendered for it only if the candidate has an entry for that test
\* with a status other than 'not_sent'
TestViewShowsSentOnly ==
  \A c \in DOMAIN candidates :
    InTestView(candidates[c]) =>
      /\ HasSentTest(candidates[c])
      /\ \A t \in ShownGroups(candidates[c]) :
           \E i \in 1 .. Len(candidates[c].testResults) :
             /\ candidates[c].testResults[i].testId = t
             /\ candidates[c].testResults[i].status # "not_sent"

\* a candidate in the test view with one entry, for t1, is rendered the
\* group of t2
UnsentTestShown ==
  \E c \in DOMAIN candidates :
    /\ InTestView(candidates[c])
    /\ Len(candidates[c].testResults) = 1
    /\ candidates[c].testResults[1].testId = "t1"
    /\ "t2" \in ShownGroups(candidates[c])

\* C33: in every reachable state a candidate's testResults holds at most one
\* entry per testId, also after two concurrent test-result uploads for the
\* same candidate and the same testId that has no entry yet
TestResultsIsMapping ==
  \A c \in DOMAIN candidates :
    \A i, j \in 1 .. Len(candidates[c].testResults) :
      candidates[c].testResults[i].testId = candidates[c].testResults[j].testId
        => i = j

\* a candidate created without test results holds two pushed entries for t1,
\* both uploads answered
DuplicateTestEntries ==
  \E c \in DOMAIN candidates :
    /\ Len(candidates[c].testResults) = 2
    /\ \A i \in 1 .. 2 :
         /\ candidates[c].testResults[i].testId = "t1"
         /\ candidates[c].testResults[i].status = "review"
    /\ DOMAIN reqs = {}

----------------------------------------------------------------------------
(* The length of the history *)

\* the routes whose committed request pushes one history entry
HistoryOps == {"update", "stage", "archive"}

\* C34: the history of a candidate has one entry when the candidate is
\* inserted, and every later step leaves it one entry longer if the step
\* commits an update, a stage transition or an archive toggle on the
\* candidate and as long as it was otherwise (a comment, a resume upload, a
\* test-result upload, a failed or unfinished request): its length is 1 plus
\* the number of those committed operations. A transition that commits on a
\* history of length 1 makes the second entry name the stage stored before
\* and the new one
HistoryCountsOperations ==
  [][/\ \A c \in DOMAIN candidates' \ DOMAIN candidates :
          Len(candidates'[c].history) = 1
     /\ \A c \in DOMAIN candidates' \cap DOMAIN candidates :
          Len(candidates'[c].history) - Len(candidates[c].history) =
            IF \E r \in ReqIds, op \in HistoryOps :
                 Ends(r, op, 200) /\ reqs[r].cid = c
            THEN 1 ELSE 0
     /\ \A r \in ReqIds :
          (Ends(r, "stage", 200) /\ Len(candidates[reqs[r].cid].history) = 1) =>
            LET c == reqs[r].cid
            IN  /\ Len(candidates'[c].history) = 2
                /\ Last(candidates'[c].history).action =
                     <<"stageChanged", candidates[c].stage, candidates'[c].stage>>
                /\ candidates'[c].stage = reqs[r].arg]_vars

\* a candidate created in 'inbox', moved to 'screening' and commented on:
\* two history entries, the last naming both stages
HistoryAfterTransitionAndComment ==
  \E c \in DOMAIN candidates :
    /\ Len(candidates[c].history) = 2
    /\ candidates[c].history[1].action = <<"created">>
    /\ candidates[c].history[2].action = <<"stageChanged", "inbox", "screening">>
    /\ Len(candidates[c].comments) = 1
    /\ DOMAIN reqs = {}

----------------------------------------------------------------------------
(* Publication after commit: the split save and emit, with the delete route *)

NextPublish ==
  \/ NextBroadcast
  \/ \E u \in Users, id \in CandIds : DeleteCandidate(u, id)

SpecPublish == Init /\ [][NextPublish]_vars

\* the store holds the mutation event e was published for, on behalf of
\* handler r: the inserted candidate, the absence of the deleted one, the
\* history entry of the update or transition, the comment
Reflects(store, e, r) ==
  CASE e.type = "candidate:created" ->
         e.cid \in DOMAIN store /\ store[e.cid] = e.data[1]
    [] e.type = "candidate:deleted" -> e.cid \notin DOMAIN store
    [] e.type = "candidate:updated" ->
         /\ e.cid \in DOMAIN store
         /\ \E i \in 1 .. Len(store[e.cid].history) :
              /\ store[e.cid].history[i].action = <<"edited">>
              /\ store[e.cid].history[i].user = reqs[r].user
    [] e.type = "candidate:stageChanged" ->
         /\ e.cid \in DOMAIN store
         /\ \E i \in 1 .. Len(store[e.cid].history) :
              /\ store[e.cid].history[i].action = <<"stageChanged">> \o e.data
              /\ store[e.cid].history[i].user = reqs[r].user
    [] e.type = "candidate:commentAdded" ->
         /\ e.cid \in DOMAIN store
         /\ \E i \in 1 .. Len(store[e.cid].comments) :
              store[e.cid].comments[i] = Comment(reqs[r].user, reqs[r].arg)

\* a committed delete has removed candidate c since: its event is published
RemovedSince(c) ==
  /\ c \notin DOMAIN candidates
  /\ \E i \in 1 .. Len(events) :
       events[i].type = "candidate:deleted" /\ events[i].cid = c

UpdatePublishedAfterCommit ==
  /\ Len(events) = 2
  /\ events[2].type = "candidate:updated"
  /\ events[2].cid \in DOMAIN candidates
  /\ Last(candidates[events[2].cid].history).action = <<"edited">>

----------------------------------------------------------------------------
(* Two archive toggles *)

\* the history of candidate c is its 'created' entry and the entries of two
\* completed PUT /:id/archive requests, and no request is in flight
ToggledTwice(c) ==
  /\ DOMAIN reqs = {}
  /\ Len(candidates[c].history) = 3
  /\ \A i \in 2 .. 3 :
       candidates[c].history[i].action \in {<<"archived">>, <<"unarchived">>}

\* C36: two completed archive requests on a candidate that was created
\* unarchived leave it unarchived, with one 'archived' and one 'unarchived'
\* entry appended, in every interleaving of their read and write steps
TwoTogglesRestore ==
  \A c \in DOMAIN candidates :
    ToggledTwice(c) =>
      /\ ~candidates[c].isArchived
      /\ candidates[c].history[2].action = <<"archived">>
      /\ candidates[c].history[3].action = <<"unarchived">>

\* both requests have archived: the candidate is archived by the second
\* caller and no entry says 'unarchived'
BothTogglesArchived ==
  \E c \in DOMAIN candidates :
    /\ ToggledTwice(c)
    /\ candidates[c].isArchived
    /\ candidates[c].stage = "archived"
    /\ \A i \in 2 .. 3 : candidates[c].history[i].action = <<"archived">>

----------------------------------------------------------------------------
(* The provider's filters and the refetch of its socket handlers *)

\* the filters the user selects in the views
FilterChoices ==
  {DefaultFilters,
   Query("", "screening", FALSE, 1, 50),
   Query("", "", TRUE, 1, 50)}

\* the list GET /api/candidates answers session s for filters f (one page)
FetchedBy(s, f) ==
  [c \in {d \in DOMAIN candidates : MatchesQuery(candidates[d], UserOrg[s], f)}
     |-> candidates[c]]

\* fetchCandidates(newFilters): the list of filtersToUse = newFilters ||
\* filters is loaded, and setFilters(newFilters) when newFilters is given
FetchCandidatesWith(c, s, newFilters) ==
  [c EXCEPT !.view = FetchedBy(s, newFilters), !.filters = newFilters]

\* the socket effect of the provider runs when organization.id is set: the
\* socket joins the room and its handlers close over the filters of that
\* render
MountSocket(s) ==
  /\ nOps = 0
  /\ clients[s].since = <<>>
  /\ clients' = [clients EXCEPT
       ![s].since = (UserOrg[s] :> Len(events)),
       ![s].bound = clients[s].filters]
  /\ UNCHANGED <<candidates, nextId, orgStages, orgVersion, reqs, nOps, resp, events, listQ>>

\* the user selects filters f: a view calls fetchCandidates(f)
SelectFilters(s, f) ==
  /\ f # clients[s].filters
  /\ clients' = [clients EXCEPT ![s] = FetchCandidatesWith(@, s, f)]
  /\ UNCHANGED <<candidates, nextId, orgStages, orgVersion, reqs, nOps, resp, events, listQ>>

\* the socket of session s gets the next event; 'candidate:created' and
\* 'candidate:updated' call fetchCandidates(filters) with the filters of
\* the handlers' closure, the other handlers change the local list
DeliverEvent(s) ==
  /\ clients[s].cursor < Len(events)
  /\ LET i == clients[s].cursor + 1
         c == [clients[s] EXCEPT !.cursor = i]
     IN  clients' = [clients EXCEPT ![s] =
           IF ~SentTo(s, i) THEN c
           ELSE IF events[i].type \in {"candidate:created", "candidate:updated"}
           THEN FetchCandidatesWith(c, s, clients[s].bound)
           ELSE [c EXCEPT !.view = Handled(s, @, events[i])]]
  /\ UNCHANGED <<candidates, nextId, orgStages, orgVersion, reqs, nOps, resp, events, listQ>>

\* the sessions of the filters specification
FilterSessions == {"ub"}

NextFilters ==
  \/ \E u \in Users, body \in ListBodies : CreateCandidate(u, body)
  \/ \E r \in ReqIds : CreateCheckDuplicate(r)
  \/ \E r \in ReqIds : CreateSave(r)
  \/ \E u \in Users, id \in CandIds, patch \in BroadcastPatches : UpdateCandidate(u, id, patch)
  \/ \E r \in ReqIds : UpdateSave(r)
  \/ \E s \in FilterSessions : MountSocket(s)
  \/ \E s \in FilterSessions, f \in FilterChoices : SelectFilters(s, f)
  \/ \E s \in FilterSessions : DeliverEvent(s)

SpecFilters == Init /\ [][NextFilters]_vars

\* C37: when a 'candidate:created' or 'candidate:updated' event sent to the
\* session's room is handled, the list is loaded for the filters selected at
\* that time and the filters state stays as it was
RefetchUsesSelectedFilters ==
  [][\A s \in FilterSessions :
       LET i == clients[s].cursor + 1
       IN  (/\ clients'[s].cursor = i
            /\ SentTo(s, i)
            /\ events[i].type \in {"candidate:created", "candidate:updated"})
           => /\ clients'[s].filters = clients[s].filters
              /\ clients'[s].view = FetchedBy(s, clients[s].filters)]_vars

----------------------------------------------------------------------------
(* The axios instance of a session: tokens, the 401 interceptor, login and  *)
(* logout                                                                   *)

\* requests of the axios instance a session makes in one behaviour, and in
\* flight at the same time
MaxCalls == 3
MaxApi   == 2

ApiIds == 1 .. MaxApi

\* apiClient.get of a protected route, authService.login, authService.logout
ApiKinds == {"get", "login", "logout"}

\* the refreshToken of an AuthResponse: absent, or a token
RefreshTokens == {Null, "r1"}

\* tokenManager.removeToken: localStorage.removeItem('auth_token')
RemoveToken(c) == [c EXCEPT !.token = Null]

\* tokenManager.setToken
SetToken(c, token) == [c EXCEPT !.token = token]

\* authService.isAuthenticated: !!tokenManager.getToken()
IsAuthenticated(c) == c.token # Null

\* an interceptor that leaves originalRequest._retry unset
RetryUnmarked(req) == req

\* originalRequest._retry = true
MarkRetry(req) == [req EXCEPT !.retry = TRUE]

\* the request interceptor: the Authorization header carries the stored token
NewRequest(c, kind) ==
  [kind |-> kind, pc |-> "sent", retry |-> FALSE, bearer |-> c.token,
   refreshes |-> 0, sends |-> 1]

\* the promise of request q settles and the caller's continuation runs:
\* login stores the token, the refresh token if the response has one, and
\* the user; logout clears the token and the user whether its POST resolved
\* or was rejected
Settle(c, q, outcome, refreshToken) ==
  LET req  == c.api[q]
      done == [c EXCEPT
                !.api  = [k \in DOMAIN c.api \ {q} |-> c.api[k]],
                !.last = [kind |-> req.kind, outcome |-> outcome,
                          refreshes |-> req.refreshes, sends |-> req.sends]]
  IN  CASE req.kind = "login" /\ outcome = "resolved" ->
             [SetToken(done, "t1") EXCEPT
                !.refreshToken = IF refreshToken # Null THEN refreshToken ELSE @,
                !.user = "user"]
        [] req.kind = "logout" -> [RemoveToken(done) EXCEPT !.user = Null]
        [] OTHER -> done

\* the response interceptor of request q for a response with this status (0:
\* no response): a first 401 marks the request and starts the refresh when a
\* refresh token is stored, and removes the token and rejects when none is;
\* every other error is rejected
Interceptor(c, q, status, refreshToken) ==
  IF status = 200 THEN Settle(c, q, "resolved", refreshToken)
  ELSE IF status = 401 /\ ~c.api[q].retry
  THEN LET marked == [c EXCEPT !.api[q] = MarkRetry(@)]
       IN  IF c.refreshToken # Null
           THEN [marked EXCEPT !.api[q].pc = "refreshing",
                               !.api[q].refreshes = @ + 1]
           ELSE Settle(RemoveToken(marked), q, "rejected", Null)
  ELSE Settle(c, q, "rejected", Null)

\* the statuses a request can be answered with: the auth middleware answers
\* 401 to a request without a token, and to a token it does not accept
StatusesFor(req) ==
  IF req.kind # "login" /\ req.bearer = Null THEN {401, 0} ELSE {200, 401, 0}

\* a call of the axios instance
ApiCall(s, kind) ==
  /\ clients[s].calls < MaxCalls
  /\ \E q \in ApiIds :
       /\ q \notin DOMAIN clients[s].api
       /\ \A k \in ApiIds : k < q => k \in DOMAIN clients[s].api
       /\ clients' = [clients EXCEPT
            ![s].api = @ @@ (q :> NewRequest(clients[s], kind)),
            ![s].calls = @ + 1]
  /\ UNCHANGED <<candidates, nextId, orgStages, orgVersion, reqs, nOps, resp, events, listQ>>

\* the response to request q arrives (a login response may carry a refresh
\* token)
Respond(s, q, status, refreshToken) ==
  /\ q \in DOMAIN clients[s].api
  /\ clients[s].api[q].pc = "sent"
  /\ status \in StatusesFor(clients[s].api[q])
  /\ refreshToken # Null => clients[s].api[q].kind = "login" /\ status = 200
  /\ clients' = [clients EXCEPT ![s] = Interceptor(@, q, status, refreshToken)]
  /\ UNCHANGED <<candidates, nextId, orgStages, orgVersion, reqs, nOps, resp, events, listQ>>

\* axios.post('/auth/refresh') of request q returns: the new token is stored
\* and the original request is sent again with it, or the token is removed
\* and the request rejected
RefreshResponse(s, q, ok) ==
  /\ q \in DOMAIN clients[s].api
  /\ clients[s].api[q].pc = "refreshing"
  /\ clients' = [clients EXCEPT ![s] =
       IF ok
       THEN [SetToken(@, "t2") EXCEPT !.api[q].pc = "sent",
                                      !.api[q].bearer = "t2",
                                      !.api[q].sends = @ + 1]
       ELSE Settle(RemoveToken(@), q, "rejected", Null)]
  /\ UNCHANGED <<candidates, nextId, orgStages, orgVersion, reqs, nOps, resp, events, listQ>>

\* the sessions of the token specification
AuthSessions == {"ub"}

NextAuth ==
  \/ \E s \in AuthSessions, kind \in ApiKinds : ApiCall(s, kind)
  \/ \E s \in AuthSessions, q \in ApiIds, status \in {200, 401, 0},
        refreshToken \in RefreshTokens : Respond(s, q, status, refreshToken)
  \/ \E s \in AuthSessions, q \in ApiIds, ok \in BOOLEAN : RefreshResponse(s, q, ok)

SpecAuth == Init /\ [][NextAuth]_vars

\* C38: a request is refreshed for at most once and sent at most twice; a 401
\* for a request already retried rejects it with no refresh and no change of
\* the token; a first 401 with no refresh token stored, and a refresh call
\* that fails, remove the stored token and reject the request
AtMostOneRefresh ==
  [][\A s \in AuthSessions :
       /\ \A q \in DOMAIN clients'[s].api :
            clients'[s].api[q].refreshes <= 1 /\ clients'[s].api[q].sends <= 2
       /\ clients'[s].last.refreshes <= 1 /\ clients'[s].last.sends <= 2
       /\ \A q \in DOMAIN clients[s].api :
            LET req == clients[s].api[q]
            IN  /\ (Respond(s, q, 401, Null) /\ req.sends = 2) =>
                     /\ q \notin DOMAIN clients'[s].api
                     /\ clients'[s].last =
                          [kind |-> req.kind, outcome |-> "rejected",
                           refreshes |-> 1, sends |-> 2]
                     /\ req.kind # "logout" => clients'[s].token = clients[s].token
                /\ (Respond(s, q, 401, Null) /\ req.sends = 1
                    /\ clients[s].refreshToken = Null) =>
                     /\ q \notin DOMAIN clients'[s].api
                     /\ clients'[s].last.outcome = "rejected"
                     /\ clients'[s].last.refreshes = 0
                     /\ clients'[s].token = Null
                /\ RefreshResponse(s, q, FALSE) =>
                     /\ q \notin DOMAIN clients'[s].api
                     /\ clients'[s].last.outcome = "rejected"
                     /\ clients'[s].token = Null]_vars

\* a request was answered 401, refreshed for, sent again, answered 401 again
\* and rejected, with the refreshed token still stored
RetryRejected ==
  \E s \in AuthSessions :
    /\ clients[s].last = [kind |-> "get", outcome |-> "rejected",
                           refreshes |-> 1, sends |-> 2]
    /\ clients[s].api = <<>>
    /\ clients[s].token = "t2"

\* C39: while no user is stored (logout has completed, or nobody has logged
\* in) and no login is in flight, isAuthenticated() is false
LoggedOutStaysLoggedOut ==
  \A s \in AuthSessions :
    (/\ clients[s].user = Null
     /\ \A q \in DOMAIN clients[s].api : clients[s].api[q].kind # "login")
    => ~IsAuthenticated(clients[s])

\* after the logout completed, a request answered 401 was refreshed for with
\* the refresh token the logout left in place: a token is stored again
TokenBackAfterLogout ==
  \E s \in AuthSessions :
    /\ clients[s].user = Null
    /\ clients[s].refreshToken = "r1"
    /\ clients[s].token = "t2"
    /\ \A q \in DOMAIN clients[s].api : clients[s].api[q].kind = "get"

====
